---- MODULE Spec2Model ----
(***************************************************************************)
(* A model of the x/84 session engine (x84/bbs/session.py) and of the      *)
(* terminal front-end (x84/terminal.py).                                    *)
(*                                                                          *)
(* Python lists are modelled as sequences in the same orientation: index 1  *)
(* is list index 0, so list.insert(0, d) is <<d>> \o s, list.pop() removes  *)
(* the last element and s[:n] is SubSeq(s, 1, n).  Python's None is the     *)
(* empty tuple; an optional value v is <<v>>.                               *)
(***************************************************************************)
EXTENDS Integers, Sequences, FiniteSets, TLC

\* ------------------------------------------------------------------ bounds
\* Messages the front-end puts on a session's channel in one behaviour.
MaxSent == 2
\* Depth of the script stack up to which scripts still call runscript.
MaxDepth == 2
\* Acquire requests the lock authority refuses in one behaviour.
MaxRefuse == 1
\* Messages the front-end sends a session in SpecLife.
MaxLifeSent == 1
\* Messages the front-end sends a session in SpecBuf.
MaxBufSent == 3
\* Messages the front-end sends a session in SpecGlobal.
MaxGlobalSent == 152
\* Messages the front-end sends a session in SpecPage.
MaxPageSent == 3
\* Messages the front-end sends a session in SpecInline.
MaxInlineSent == 2
\* Messages the front-end sends a session in SpecChat.
MaxChatSent == 2
\* Frames on the script stack when a script makes a gosub in SpecChat.
MaxChatDepth == 3
\* Session processes sharing the node numbers in SpecNode.
MaxSessions == 3
\* Messages put on one channel in SpecChan.
MaxChanSent == 3

\* SpecNeg: the messages the client sends during the negotiation
MaxReceived == 2
\* SpecSize: the window-size changes the client reports
MaxResizes == 2
MaxInterrupts == 1

\* ------------------------------------------------------- program constants
\* session.py:479  len(self._buffer[event]) > 150
GlobalLimit == 150
\* session.py:480  self._buffer[event][:100]
GlobalKeep == 100
\* session.py:262  range(1, 64)
LastNode == 63
\* terminal.py:139  TIME_WAIT = 1.25, in units of 0.05 s
TIME_WAIT == 25
\* terminal.py:140  TIME_PAUSE = 1.75, in units of 0.05 s
TIME_PAUSE == 35
\* terminal.py:141  TIME_POLL = 0.10, in units of 0.05 s
TIME_POLL == 2
\* terminal.py:177,188  the 0.25 s of the banner, in units of 0.05 s
BannerWait == 5

None == << >>
Some(v) == <<v>>
\* (None, None), the miss result of read_events (session.py:540,567,569);
\* the name that is None is written "None"
NoEvent == <<"None", None>>

Last(s) == s[Len(s)]
Front(s) == SubSeq(s, 1, Len(s) - 1)

\* ------------------------------------------------------------- variables
VARIABLES
    script_stack,   \* Session._script_stack: frames, top is the last one
    calls,          \* the chain of script main() calls now executing
    pc,             \* position of Session.run / start_process
    signal,         \* the exception now propagating (or last handled by run)
    notice,         \* the last notice written by __error_recovery
    buffer,         \* Session._buffer: event name -> list of payloads
    iqueue,         \* messages waiting on the session's end of the channel
    oqueue,         \* messages the session has sent with send_event
    ret,            \* what the last read_events call returned to its caller
    sent,           \* number of messages the front-end has produced so far
    lastRefresh,    \* the payload last stored by the 'refresh' rule
    term,           \* (terminal.columns, terminal.rows)
    node,           \* Session._node
    answered,       \* acquire requests the lock authority has answered
    refused,        \* acquire requests the lock authority has refused
    fp_ttyrec,      \* Session._fp_ttyrec
    record_tty,     \* Session._record_tty (configuration)
    mesg,           \* the user's 'mesg' setting: pages are accepted
    closes,         \* number of times Session.close has run
    procs,          \* SpecNode: each session process: position, _node, try
    uplink,         \* SpecNode: messages each session sent, not yet handled
    downlink,       \* SpecNode: replies waiting on each session's channel
    locks,          \* SpecNode: the lock names the authority holds as taken
    prod,           \* SpecChan: each producer: position, event being sent
    lock,           \* SpecChan: the holder of the lock of each channel end
    pipe,           \* SpecChan: the messages sent on each channel end
    neg,            \* SpecNeg: the negotiation thread: position, clock
    client,         \* SpecNeg: the telnet client object of the connection
    registry,       \* SpecNeg: TERMINALS, the registered clients
    spawned,        \* SpecNeg: the environment the session process got
    tasks,          \* SpecReg: per client, its connection thread and the
                    \* on_disconnect call made for it
    clock,          \* SpecRec: time.time(), in microseconds
    disk,           \* SpecRec: the recording folder and its files
    recorders       \* SpecRec: per session, its encoding, its output and
                    \* its recording

\* the state of one session process
sessVars == <<script_stack, calls, pc, signal, notice, buffer, iqueue, oqueue,
              ret, sent, lastRefresh, term, node, answered, refused,
              fp_ttyrec, record_tty, mesg, closes>>
\* the sessions sharing the node numbers, and the lock authority
nodeVars == <<procs, uplink, downlink, locks>>
\* the producers of one channel
chanVars == <<prod, lock, pipe>>
\* the negotiation of one connection
negVars == <<neg, client, registry, spawned>>
\* the tasks that add to and remove from the registry
regVars == <<tasks>>
\* the output and the recordings of sessions
recVars == <<clock, disk, recorders>>
\* what lies outside the one session process
outside == <<nodeVars, chanVars, negVars, regVars, recVars>>

vars == <<sessVars, nodeVars, chanVars, negVars, regVars, recVars>>

\* ------------------------------------------------------ the event buffer

\* session.py:456-458  init new buffer on first use of a name
EnsureKey(buf, event) ==
    IF event \in DOMAIN buf THEN buf ELSE buf @@ (event :> << >>)

\* session.py:492-493  each keystroke of the chunk is inserted at the front
RECURSIVE InsertKeystrokes(_, _)
InsertKeystrokes(lst, data) ==
    IF data = << >> THEN lst
    ELSE InsertKeystrokes(<<data[1]>> \o lst, SubSeq(data, 2, Len(data)))

\* session.py:482-494  Session.buffer_input
buffer_input(buf, data) ==
    [buf EXCEPT !["input"] = InsertKeystrokes(@, data)]

\* (a 'refresh' rule that queued the payload like any other)
StoreRefreshQueued(buf, data) ==
    [buf EXCEPT !["refresh"] = <<data>> \o @]

\* session.py:471  store only the most recent 'refresh' event
StoreRefresh(buf, data) ==
    [buf EXCEPT !["refresh"] = <<data>>]

\* (a cut that kept the 100 oldest entries)
TrimGlobalOldest(lst) ==
    IF Len(lst) > GlobalLimit
    THEN SubSeq(lst, Len(lst) - GlobalKeep + 1, Len(lst))
    ELSE lst

\* session.py:479-480  keep only the 100 most recent 'global' events
TrimGlobal(lst) ==
    IF Len(lst) > GlobalLimit THEN SubSeq(lst, 1, GlobalKeep) ELSE lst

\* session.py:474-480  buffer all else
InsertOther(buf, event, data) ==
    LET b1 == [buf EXCEPT ![event] = <<data>> \o @]
    IN  IF event = "global" THEN [b1 EXCEPT ![event] = TrimGlobal(@)] ELSE b1

\* session.py:456-480  the buffering rules of buffer_event (the events that
\* buffer_event does not handle inline)
Buffered(buf, event, data) ==
    LET b0 == EnsureKey(buf, event)
    IN  IF event = "input" THEN buffer_input(b0, data)
        ELSE IF event = "refresh" THEN StoreRefresh(b0, data)
        ELSE InsertOther(b0, event, data)

\* session.py:467-469  a ('resize', (columns, rows)) refresh sets the
\* terminal's dimensions
Resized(t, event, data) ==
    IF event = "refresh" /\ data[1] = "resize" THEN data[2] ELSE t

\* (a pop that returned the entry inserted last)
PopNewest(buf, event) == buf[event][1]

\* session.py:571-578  Session._event_pop: the value returned
PopValue(buf, event) == Last(buf[event])

\* session.py:571-578  Session._event_pop: the buffer left behind
PopRest(buf, event) == [buf EXCEPT ![event] = Front(@)]

\* session.py:543-544  e in self._buffer and 0 != len(self._buffer[e])
HasData(buf, e) == e \in DOMAIN buf /\ buf[e] # << >>

\* (a scan that kept the last name with buffered data)
LastBuffered(buf, events) ==
    LET hits == {i \in 1..Len(events) : HasData(buf, events[i])}
    IN  IF hits = {} THEN 0
        ELSE CHOOSE i \in hits : \A j \in hits : i >= j

\* session.py:542-545  index of the first name of events with buffered data
\* (0 when there is none)
FirstBuffered(buf, events) ==
    LET hits == {i \in 1..Len(events) : HasData(buf, events[i])}
    IN  IF hits = {} THEN 0
        ELSE CHOOSE i \in hits : \A j \in hits : i <= j

\* session.py:547-550  timeleft: the wait left after `elapsed`; None (no
\* timeout) means an unbounded wait
timeleft(timeout, elapsed) ==
    IF timeout = None THEN None
    ELSE IF timeout[1] < 0 THEN timeout
    ELSE Some(timeout[1] - elapsed)

\* session.py:552  while waitfor > 0 (float('inf') > 0 holds)
Waiting(waitfor) == waitfor = None \/ waitfor[1] > 0


\* ------------------------------------------------------------ the engine

\* session.py:83  the first frame is the configured matrix script
MatrixScript == "matrix"

\* session.py:263  'lock-%s/%d' % ('node', node)
LockNames == <<
    "lock-node/1", "lock-node/2", "lock-node/3", "lock-node/4",
    "lock-node/5", "lock-node/6", "lock-node/7", "lock-node/8",
    "lock-node/9", "lock-node/10", "lock-node/11", "lock-node/12",
    "lock-node/13", "lock-node/14", "lock-node/15", "lock-node/16",
    "lock-node/17", "lock-node/18", "lock-node/19", "lock-node/20",
    "lock-node/21", "lock-node/22", "lock-node/23", "lock-node/24",
    "lock-node/25", "lock-node/26", "lock-node/27", "lock-node/28",
    "lock-node/29", "lock-node/30", "lock-node/31", "lock-node/32",
    "lock-node/33", "lock-node/34", "lock-node/35", "lock-node/36",
    "lock-node/37", "lock-node/38", "lock-node/39", "lock-node/40",
    "lock-node/41", "lock-node/42", "lock-node/43", "lock-node/44",
    "lock-node/45", "lock-node/46", "lock-node/47", "lock-node/48",
    "lock-node/49", "lock-node/50", "lock-node/51", "lock-node/52",
    "lock-node/53", "lock-node/54", "lock-node/55", "lock-node/56",
    "lock-node/57", "lock-node/58", "lock-node/59", "lock-node/60",
    "lock-node/61", "lock-node/62", "lock-node/63">>

\* session.py:263  the event name of node number n
LockEvent(n) == LockNames[n]

\* session.py:606-621  the script-path collaborator: a script resolves
\* when its module is found and has a callable main
Resolves(name) == name # "nosuch"

\* session.py:308  the exceptions the run loop tells apart
\* (`at` is the stack position of the frame whose script raised a
\* failure: the faulted frame)
NoSignal == [kind |-> "none", frame |-> None, at |-> 0]
GotoSignal(frame) == [kind |-> "Goto", frame |-> frame, at |-> 0]
Disconnected == [kind |-> "Disconnected", frame |-> None, at |-> 0]
Failure == [kind |-> "Failure", frame |-> None, at |-> 0]

\* (a raise that turned every payload into a generic failure)
RaisedAsFailure(sig, at) == [Failure EXCEPT !.at = at]

\* the exception `sig` as raised in the script whose frame is at stack
\* position `at`
RaisedAt(sig, at) ==
    IF sig.kind = "Failure" THEN [sig EXCEPT !.at = at] ELSE sig

\* session.py:622  one executing script main(): the frame it was started
\* for, who called runscript (run, a script's gosub, the page rule of
\* buffer_event), the read_events call it is in, if any, and the loop
\* variable of Session.node while it acquires a node; `at` is the stack
\* position runscript pushed the frame at (session.py:586)
Activation(frame, via, at) ==
    [frame |-> frame, via |-> via, at |-> at, mode |-> "body",
     op |-> "script", events |-> << >>, timeout |-> None, elapsed |-> 0,
     try |-> 0]

Top == Last(calls)
SetTop(a) == [calls EXCEPT ![Len(calls)] = a]
InBody == pc = "exec" /\ calls # << >> /\ Top.mode = "body"

\* (a Goto that pushed its frame instead)
GotoStackKeep(stack, frame) == Append(stack, frame)

\* session.py:316  self._script_stack = [err[0] + tuple(err[1:])]
GotoStack(stack, frame) == <<frame>>

\* session.py:276-278  the frames left by __error_recovery
RecoveredStack(stack) ==
    IF Len(stack) # 0 THEN Front(stack) ELSE stack

\* session.py:279-296  the notice __error_recovery writes
RecoveryNotice(stack) ==
    IF Len(stack) = 0 THEN None
    ELSE IF Len(stack) > 1
         THEN <<"continue", stack[Len(stack) - 1][1], stack[Len(stack)][1]>>
         ELSE <<"stop", stack[Len(stack)][1]>>

\* session.py:378-380  a non-empty write starts the recording when the
\* session records and is not recording yet
Recorded(fp, rec, ucs) ==
    IF ucs = "" THEN fp
    ELSE IF rec /\ fp = None THEN Some("ttyrec") ELSE fp

\* (a close that released number 1 whatever the session held)
CloseQueueFirst(q, n) == Append(q, <<LockEvent(1), <<"release", None>>>>)

\* (a close that forgot the node)
CloseQueueKeep(q, n) == q

\* session.py:632-635  close sends the release event of a claimed node
CloseQueue(q, n) ==
    IF n # None
    THEN Append(q, <<LockEvent(n[1]), <<"release", None>>>>)
    ELSE q

\* session.py:626-635  Session.close; `tail` is what the caller sends on
\* the channel right after it
close(tail) ==
    /\ fp_ttyrec' = None
    /\ oqueue' = CloseQueue(oqueue, node) \o tail
    /\ closes' = closes + 1

ToSet(seq) == {seq[i] : i \in 1..Len(seq)}

\* the activation left when a read_events call returns to its caller: a
\* script body, or the loop of Session.node
Returned(a) ==
    [a EXCEPT !.mode = IF a.op = "node" THEN "nodeloop" ELSE "body",
              !.events = << >>, !.timeout = None, !.elapsed = 0]

\* the activation that an exception raised inside read_events reaches
Interrupted(a) ==
    [a EXCEPT !.mode = "body", !.op = "script", !.events = << >>,
              !.timeout = None, !.elapsed = 0, !.try = 0]

\* session.py:533-553  read_events up to its first poll, called in the top
\* activation `a` of the call chain `cs`
EnterRead(cs, a, events, timeout) ==
    LET i == FirstBuffered(buffer, events)
    IN  IF i # 0
        THEN /\ ret' = <<events[i], PopValue(buffer, events[i])>>
             /\ buffer' = PopRest(buffer, events[i])
             /\ calls' = [cs EXCEPT ![Len(cs)] = Returned(a)]
        ELSE IF Waiting(timeleft(timeout, 0))
        THEN /\ calls' = [cs EXCEPT ![Len(cs)] =
                    [a EXCEPT !.mode = "reading", !.events = events,
                              !.timeout = timeout, !.elapsed = 0]]
             /\ UNCHANGED <<buffer, ret>>
        ELSE /\ ret' = NoEvent
             /\ calls' = [cs EXCEPT ![Len(cs)] = Returned(a)]
             /\ UNCHANGED buffer

\* session.py:564-568  read_events after buffer_event returned for `event`:
\* `cs` is the call chain with the reader on top, `buf` the buffer as
\* buffer_event left it
AfterBufferEvent(cs, buf, event) ==
    LET a == Last(cs)
    IN  IF event \in ToSet(a.events)
        THEN IF HasData(buf, event)
             THEN /\ ret' = <<event, PopValue(buf, event)>>
                  /\ buffer' = PopRest(buf, event)
                  /\ calls' = [cs EXCEPT ![Len(cs)] = Returned(a)]
                  /\ pc' = "exec"
                  /\ signal' = NoSignal
             ELSE \* _event_pop fails: KeyError or IndexError
                  /\ buffer' = buf
                  /\ calls' = [cs EXCEPT ![Len(cs)] = Interrupted(a)]
                  /\ pc' = "unwind"
                  /\ signal' = RaisedAt(Failure, a.at)
                  /\ ret' = ret
        ELSE /\ buffer' = buf
             /\ calls' = cs
             /\ pc' = "exec"
             /\ signal' = NoSignal
             /\ ret' = ret

Reading == pc = "exec" /\ calls # << >> /\ Top.mode = "reading"
                       /\ iqueue # << >>

\* ---------------------------------------------------- Session.run

\* session.py:309-313  the loop takes the top frame and runs it
RunNext ==
    /\ pc = "loop"
    /\ script_stack # << >>
    /\ LET frame == Last(script_stack)
       IN  /\ script_stack' = Append(Front(script_stack), frame)
           /\ IF Resolves(frame[1])
              THEN /\ calls' = <<Activation(frame, "run", Len(script_stack))>>
                   /\ pc' = "exec"
                   /\ signal' = NoSignal
              ELSE /\ calls' = << >>
                   /\ pc' = "unwind"
                   /\ signal' = RaisedAt(Failure, Len(script_stack))
    /\ UNCHANGED <<notice, buffer, iqueue, oqueue, ret, sent, lastRefresh,
                   term, node, answered, refused, fp_ttyrec, record_tty,
                   mesg, closes>>
    /\ UNCHANGED outside

\* session.py:309,337-339  the stack is empty: close and return
RunEnd ==
    /\ pc = "loop"
    /\ script_stack = << >>
    /\ close(<< >>)
    /\ pc' = "done"
    /\ UNCHANGED <<script_stack, calls, signal, notice, buffer, iqueue, ret,
                   sent, lastRefresh, term, node, answered, refused,
                   record_tty, mesg>>
    /\ UNCHANGED outside

AtRun(kind) == pc = "unwind" /\ calls = << >> /\ signal.kind = kind

\* session.py:314-317  except Goto
RunGoto ==
    /\ AtRun("Goto")
    /\ script_stack' = GotoStack(script_stack, signal.frame)
    /\ pc' = "loop"
    /\ signal' = NoSignal
    /\ UNCHANGED <<calls, notice, buffer, iqueue, oqueue, ret, sent,
                   lastRefresh, term, node, answered, refused, fp_ttyrec,
                   record_tty, mesg, closes>>
    /\ UNCHANGED outside

\* session.py:318-321  except Disconnected
RunDisconnected ==
    /\ AtRun("Disconnected")
    /\ close(<< >>)
    /\ pc' = "done"
    /\ UNCHANGED <<script_stack, calls, signal, notice, buffer, iqueue, ret,
                   sent, lastRefresh, term, node, answered, refused,
                   record_tty, mesg>>
    /\ UNCHANGED outside

\* session.py:322-336, 271-300  except Exception, then __error_recovery
RunFailure ==
    /\ AtRun("Failure")
    /\ script_stack' = RecoveredStack(script_stack)
    /\ notice' = RecoveryNotice(script_stack)
    /\ fp_ttyrec' = Recorded(fp_ttyrec, record_tty,
                             IF Len(script_stack) # 0 THEN "notice" ELSE "")
    /\ pc' = "loop"
    /\ signal' = NoSignal
    /\ UNCHANGED <<calls, buffer, iqueue, oqueue, ret, sent, lastRefresh,
                   term, node, answered, refused, record_tty, mesg, closes>>
    /\ UNCHANGED outside

\* terminal.py:64-71  start_process after run() returned: close again and
\* send the 'disconnect' notice
WrapperClose ==
    /\ pc = "done"
    /\ close(<< <<"disconnect", <<"process exit">> >> >>)
    /\ pc' = "exit"
    /\ UNCHANGED <<script_stack, calls, signal, notice, buffer, iqueue, ret,
                   sent, lastRefresh, term, node, answered, refused,
                   record_tty, mesg>>
    /\ UNCHANGED outside

\* ---------------------------------------------------- script bodies

\* session.py:622-624  main() returns: runscript pops the top frame and
\* hands the value to its caller (run, the calling script, or the page
\* rule of buffer_event, session.py:444-448, 564-568)
ScriptReturn ==
    /\ InBody
    /\ script_stack' = Front(script_stack)
    /\ IF Top.via = "run"
       THEN /\ calls' = << >>
            /\ pc' = "loop"
            /\ UNCHANGED <<signal, buffer, ret, lastRefresh>>
       ELSE IF Top.via = "gosub"
       THEN /\ calls' = [Front(calls) EXCEPT ![Len(calls) - 1].mode = "body"]
            /\ UNCHANGED <<pc, signal, buffer, ret, lastRefresh>>
       ELSE /\ lastRefresh' = <<"page-return">>
            /\ AfterBufferEvent(Front(calls),
                    Buffered(buffer, "refresh", <<"page-return">>), "page")
    /\ UNCHANGED <<notice, iqueue, oqueue, sent, term, node, answered,
                   refused, fp_ttyrec, record_tty, mesg, closes>>
    /\ UNCHANGED outside

\* session.py:580-624  a script calls runscript (gosub)
Gosub(frame) ==
    /\ InBody
    /\ script_stack' = Append(script_stack, frame)
    /\ IF Resolves(frame[1])
       THEN /\ calls' = Append(SetTop([Top EXCEPT !.mode = "calling"]),
                               Activation(frame, "gosub",
                                          Len(script_stack) + 1))
            /\ UNCHANGED <<pc, signal>>
       ELSE /\ pc' = "unwind"
            /\ signal' = RaisedAt(Failure, Len(script_stack) + 1)
            /\ UNCHANGED calls
    /\ UNCHANGED <<notice, buffer, iqueue, oqueue, ret, sent, lastRefresh,
                   term, node, answered, refused, fp_ttyrec, record_tty,
                   mesg, closes>>
    /\ UNCHANGED outside

\* a gosub made while the stack is below MaxDepth
ScriptGosub(frame) == Len(script_stack) < MaxDepth /\ Gosub(frame)

\* a script body raises Goto, Disconnected or another failure: the
\* exception leaves its main()
ScriptRaise(sig) ==
    /\ InBody
    /\ signal' = RaisedAt(sig, Top.at)
    /\ pc' = "unwind"
    /\ calls' = Front(calls)
    /\ UNCHANGED <<script_stack, notice, buffer, iqueue, oqueue, ret, sent,
                   lastRefresh, term, node, answered, refused, fp_ttyrec,
                   record_tty, mesg, closes>>
    /\ UNCHANGED outside

\* the script that made the failed call handles the exception itself
ScriptCatch ==
    /\ pc = "unwind"
    /\ calls # << >>
    /\ calls' = SetTop(Interrupted(Top))
    /\ pc' = "exec"
    /\ signal' = NoSignal
    /\ UNCHANGED <<script_stack, notice, buffer, iqueue, oqueue, ret, sent,
                   lastRefresh, term, node, answered, refused, fp_ttyrec,
                   record_tty, mesg, closes>>
    /\ UNCHANGED outside

\* the exception passes through the script that made the failed call
\* (session.py:622: no handler in runscript, its pop is skipped)
Propagate ==
    /\ pc = "unwind"
    /\ calls # << >>
    /\ calls' = Front(calls)
    /\ UNCHANGED <<script_stack, pc, signal, notice, buffer, iqueue, oqueue,
                   ret, sent, lastRefresh, term, node, answered, refused,
                   fp_ttyrec, record_tty, mesg, closes>>
    /\ UNCHANGED outside

\* session.py:533-553  a script calls read_events(events, timeout)
ScriptRead(events, timeout) ==
    /\ InBody
    /\ EnterRead(calls, Top, events, timeout)
    /\ UNCHANGED <<script_stack, pc, signal, notice, iqueue, oqueue, sent,
                   lastRefresh, term, node, answered, refused, fp_ttyrec,
                   record_tty, mesg, closes>>
    /\ UNCHANGED outside

\* (a flush that returned after the first payload)
RECURSIVE flush_eventOnce(_, _, _)
flush_eventOnce(buf, event, flushed) ==
    IF HasData(buf, event)
    THEN [buffer |-> PopRest(buf, event),
          flushed |-> Append(flushed, PopValue(buf, event))]
    ELSE [buffer |-> buf, flushed |-> flushed]

\* session.py:383-395  flush_event: read_event(event, -1) is called until
\* it returns None; with a negative timeout it returns buffered data and
\* never waits for the channel (the payloads of the channel are not None)
RECURSIVE flush_event(_, _, _)
flush_event(buf, event, flushed) ==
    IF HasData(buf, event)
    THEN flush_event(PopRest(buf, event), event,
                     Append(flushed, PopValue(buf, event)))
    ELSE [buffer |-> buf, flushed |-> flushed]

\* session.py:383-395  a script calls flush_event(event); the list it
\* returns is kept with the name it was asked for
ScriptFlush(event) ==
    /\ InBody
    /\ ~Waiting(timeleft(Some(-1), 0))
    /\ buffer' = flush_event(buffer, event, << >>).buffer
    /\ ret' = <<"flushed",
                <<event, flush_event(buffer, event, << >>).flushed>>>>
    /\ UNCHANGED <<script_stack, calls, pc, signal, notice, iqueue, oqueue,
                   sent, lastRefresh, term, node, answered, refused,
                   fp_ttyrec, record_tty, mesg, closes>>
    /\ UNCHANGED outside

\* session.py:341-381  a script writes text to the client
ScriptWrite(ucs) ==
    /\ InBody
    /\ fp_ttyrec' = Recorded(fp_ttyrec, record_tty, ucs)
    /\ fp_ttyrec' # fp_ttyrec
    /\ UNCHANGED <<script_stack, calls, pc, signal, notice, buffer, iqueue,
                   oqueue, ret, sent, lastRefresh, term, node, answered,
                   refused, record_tty, mesg, closes>>
    /\ UNCHANGED outside

\* ------------------------------------- read_events polling the channel

\* session.py:554-556, 424-428  the message pulled is an 'exception': its
\* payload is raised out of read_events
PollException ==
    /\ Reading
    /\ Head(iqueue)[1] = "exception"
    /\ iqueue' = Tail(iqueue)
    /\ signal' = RaisedAt(Head(iqueue)[2], Top.at)
    /\ pc' = "unwind"
    /\ calls' = SetTop(Interrupted(Top))
    /\ UNCHANGED <<script_stack, notice, buffer, oqueue, ret, sent,
                   lastRefresh, term, node, answered, refused, fp_ttyrec,
                   record_tty, mesg, closes>>
    /\ UNCHANGED outside

\* session.py:430-436  a 'global' AYT is answered with a 'route' event
IsAYT(msg) == msg[1] = "global" /\ msg[2][1] = "AYT"

\* session.py:450-454  an 'info-req' is answered with a 'route' event
IsInfoReq(msg) == msg[1] = "info-req"

\* session.py:433-435, 453  the reply sent by the inline rules
RouteReply(msg) ==
    IF IsAYT(msg) THEN <<"route", <<msg[2][2], "ACK">>>>
    ELSE <<"route", <<msg[2][1], "info-ack">>>>

\* session.py:554-568, 430-436, 450-454  the message pulled is handled
\* inline by a reply
PollInline ==
    /\ Reading
    /\ IsAYT(Head(iqueue)) \/ IsInfoReq(Head(iqueue))
    /\ iqueue' = Tail(iqueue)
    /\ oqueue' = Append(oqueue, RouteReply(Head(iqueue)))
    /\ AfterBufferEvent(calls, buffer, Head(iqueue)[1])
    /\ UNCHANGED <<script_stack, notice, sent, lastRefresh, term, node,
                   answered, refused, fp_ttyrec, record_tty, mesg, closes>>
    /\ UNCHANGED outside

\* session.py:440-442  a page that starts a chat: the top frame is not a
\* chat and the user accepts pages or the sender is -1
PageAccepted(stack, msg) ==
    /\ msg[1] = "page"
    /\ Last(stack)[1] # "chat"
    /\ mesg \/ msg[2][2] = -1

\* session.py:554-556, 438-444  the message pulled is an accepted page:
\* buffer_event runs the chat script
PollPage ==
    /\ Reading
    /\ PageAccepted(script_stack, Head(iqueue))
    /\ iqueue' = Tail(iqueue)
    /\ script_stack' = Append(script_stack, <<"chat">> \o Head(iqueue)[2])
    /\ calls' = Append(calls, Activation(<<"chat">> \o Head(iqueue)[2], "page",
                                         Len(script_stack) + 1))
    /\ UNCHANGED <<pc, signal, notice, buffer, oqueue, ret, sent,
                   lastRefresh, term, node, answered, refused, fp_ttyrec,
                   record_tty, mesg, closes>>
    /\ UNCHANGED outside

\* session.py:554-568, 456-480  the message pulled is buffered
PollBuffer ==
    /\ Reading
    /\ LET msg == Head(iqueue)
       IN  /\ msg[1] # "exception"
           /\ ~IsAYT(msg)
           /\ ~IsInfoReq(msg)
           /\ ~PageAccepted(script_stack, msg)
           /\ term' = Resized(term, msg[1], msg[2])
           /\ lastRefresh' = IF msg[1] = "refresh" THEN msg[2] ELSE lastRefresh
           /\ AfterBufferEvent(calls, Buffered(buffer, msg[1], msg[2]), msg[1])
    /\ iqueue' = Tail(iqueue)
    /\ UNCHANGED <<script_stack, notice, oqueue, sent, node, answered,
                   refused, fp_ttyrec, record_tty, mesg, closes>>
    /\ UNCHANGED outside

\* session.py:552-569  no message arrives while time passes: the wait goes
\* on while timeleft is positive and ends with (None, None)
Tick ==
    /\ pc = "exec"
    /\ calls # << >>
    /\ Top.mode = "reading"
    /\ Top.timeout # None
    /\ IF Waiting(timeleft(Top.timeout, Top.elapsed + 1))
       THEN /\ calls' = SetTop([Top EXCEPT !.elapsed = @ + 1])
            /\ ret' = ret
       ELSE /\ calls' = SetTop(Returned(Top))
            /\ ret' = NoEvent
    /\ UNCHANGED <<script_stack, pc, signal, notice, buffer, iqueue, oqueue,
                   sent, lastRefresh, term, node, answered, refused,
                   fp_ttyrec, record_tty, mesg, closes>>
    /\ UNCHANGED outside

\* ---------------------------------------------------- Session.node

\* session.py:264  self.send_event(event, ('acquire', None))
Acquire(n) == <<LockEvent(n), <<"acquire", None>>>>

\* session.py:256-265  first access to the node: the loop starts at 1,
\* sends the request and reads the reply
ScriptNode ==
    /\ InBody
    /\ node = None
    /\ oqueue' = Append(oqueue, Acquire(1))
    /\ EnterRead(calls, [Top EXCEPT !.op = "node", !.try = 1],
                 <<LockEvent(1)>>, None)
    /\ UNCHANGED <<script_stack, pc, signal, notice, iqueue, sent,
                   lastRefresh, term, node, answered, refused, fp_ttyrec,
                   record_tty, mesg, closes>>
    /\ UNCHANGED outside

\* session.py:262-269  the reply is read: the number is claimed on True,
\* else the next number is requested; after 63 the node stays unset
NodeNext ==
    /\ pc = "exec"
    /\ calls # << >>
    /\ Top.mode = "nodeloop"
    /\ IF ret[2] = TRUE
       THEN /\ node' = Some(Top.try)
            /\ calls' = SetTop(Interrupted(Top))
            /\ UNCHANGED <<oqueue, buffer, ret>>
       ELSE IF Top.try < LastNode
       THEN /\ oqueue' = Append(oqueue, Acquire(Top.try + 1))
            /\ EnterRead(calls, [Top EXCEPT !.try = @ + 1],
                         <<LockEvent(Top.try + 1)>>, None)
            /\ UNCHANGED node
       ELSE /\ calls' = SetTop(Interrupted(Top))
            /\ UNCHANGED <<node, oqueue, buffer, ret>>
    /\ UNCHANGED <<script_stack, pc, signal, notice, iqueue, sent,
                   lastRefresh, term, answered, refused, fp_ttyrec,
                   record_tty, mesg, closes>>
    /\ UNCHANGED outside

\* the acquire requests among the messages sent
Acquires(q) == SelectSeq(q, LAMBDA m : m[2] = <<"acquire", None>>)

\* the lock authority answers the oldest unanswered acquire request
Reply(granted) ==
    /\ Len(Acquires(oqueue)) > answered
    /\ granted \/ refused < MaxRefuse
    /\ iqueue' = Append(iqueue, <<Acquires(oqueue)[answered + 1][1], granted>>)
    /\ answered' = answered + 1
    /\ refused' = IF granted THEN refused ELSE refused + 1
    /\ UNCHANGED <<script_stack, calls, pc, signal, notice, buffer, oqueue,
                   ret, sent, lastRefresh, term, node, fp_ttyrec, record_tty,
                   mesg, closes>>
    /\ UNCHANGED outside

\* ---------------------------------------------------- the front-end

\* a message (event, data) is put on the session's end of the channel, at
\* most `limit` of them in a behaviour
Send(limit, event, data) ==
    /\ sent < limit
    /\ pc \in {"loop", "exec", "unwind"}
    /\ sent' = sent + 1
    /\ iqueue' = Append(iqueue, <<event, data>>)
    /\ UNCHANGED <<script_stack, calls, pc, signal, notice, buffer, oqueue,
                   ret, lastRefresh, term, node, answered, refused,
                   fp_ttyrec, record_tty, mesg, closes>>
    /\ UNCHANGED outside

\* the session waits in read_events and nothing is on the channel
Awaited == pc = "exec" /\ calls # << >> /\ Top.mode = "reading"
                       /\ iqueue = << >>

\* ------------------------------- session processes and their node numbers

Sessions == 1..MaxSessions

\* session.py:256-264  first access to the node in session s: the request
\* for number 1 is sent
NodeFirst(s) ==
    /\ procs[s].pc = "script"
    /\ procs[s].node = None
    /\ procs' = [procs EXCEPT ![s].pc = "acquire", ![s].try = 1]
    /\ uplink' = [uplink EXCEPT ![s] = Append(@, Acquire(1))]
    /\ UNCHANGED <<downlink, locks, sessVars, chanVars, negVars, regVars, recVars>>

\* session.py:533-569  the position in queue q of the message read_events
\* returns for event e, the oldest one of that name; 0 if there is none
Oldest(q, e) ==
    IF \E i \in 1..Len(q) : q[i][1] = e
    THEN CHOOSE i \in 1..Len(q) :
             q[i][1] = e /\ \A j \in 1..(i - 1) : q[j][1] # e
    ELSE 0

\* queue q without its i-th message
Without(q, i) == SubSeq(q, 1, i - 1) \o SubSeq(q, i + 1, Len(q))

\* session.py:262-269  session s reads the reply to its request: it claims
\* the number on True, else requests the next one; after 63 refusals the
\* node stays unset
NodeReply(s) ==
    /\ procs[s].pc = "acquire"
    /\ Oldest(downlink[s], LockEvent(procs[s].try)) # 0
    /\ downlink' = [downlink EXCEPT ![s] =
                       Without(@, Oldest(@, LockEvent(procs[s].try)))]
    /\ IF downlink[s][Oldest(downlink[s], LockEvent(procs[s].try))][2] = TRUE
       THEN /\ procs' = [procs EXCEPT ![s].pc = "script",
                                      ![s].node = Some(procs[s].try)]
            /\ UNCHANGED uplink
       ELSE IF procs[s].try < LastNode
       THEN /\ procs' = [procs EXCEPT ![s].try = @ + 1]
            /\ uplink' = [uplink EXCEPT
                             ![s] = Append(@, Acquire(procs[s].try + 1))]
       ELSE /\ procs' = [procs EXCEPT ![s].pc = "script"]
            /\ UNCHANGED uplink
    /\ UNCHANGED <<locks, sessVars, chanVars, negVars, regVars, recVars>>

\* session.py:265, 418-448  the read_event of Session.node pulls an
\* 'exception' event instead of the reply: buffer_event raises it and the
\* loop is left with the node unset; the script that catches it goes on
NodeInterrupted(s) ==
    /\ procs[s].pc = "acquire"
    /\ procs[s].cut < MaxInterrupts
    /\ procs' = [procs EXCEPT ![s].pc = "script", ![s].cut = @ + 1]
    /\ UNCHANGED <<uplink, downlink, locks, sessVars, chanVars, negVars,
                   regVars, recVars>>

\* session.py:318-321, 337-339, 626-635  run() of session s ends (empty
\* stack or Disconnected): the session is closed and run() returns
SessionEnd(s) ==
    /\ procs[s].pc = "script"
    /\ procs' = [procs EXCEPT ![s].pc = "returned"]
    /\ uplink' = [uplink EXCEPT ![s] = CloseQueue(@, procs[s].node)]
    /\ UNCHANGED <<downlink, locks, sessVars, chanVars, negVars, regVars, recVars>>

\* terminal.py:64-71  start_process after run() returned: it closes the
\* session again and sends the 'disconnect' notice
ProcessClose(s) ==
    /\ procs[s].pc = "returned"
    /\ procs' = [procs EXCEPT ![s].pc = "exit"]
    /\ uplink' = [uplink EXCEPT
                     ![s] = Append(CloseQueue(@, procs[s].node),
                                   <<"disconnect", <<"process exit">> >>)]
    /\ UNCHANGED <<downlink, locks, sessVars, chanVars, negVars, regVars, recVars>>

\* the lock authority takes an 'acquire' request of session s: it grants
\* the name only while it is free
LockAcquire(s) ==
    /\ uplink[s] # << >>
    /\ Head(uplink[s])[2] = <<"acquire", None>>
    /\ uplink' = [uplink EXCEPT ![s] = Tail(@)]
    /\ LET event == Head(uplink[s])[1]
       IN  /\ downlink' = [downlink EXCEPT
                              ![s] = Append(@, <<event, event \notin locks>>)]
           /\ locks' = locks \cup {event}
    /\ UNCHANGED <<procs, sessVars, chanVars, negVars, regVars, recVars>>

\* the lock authority takes a 'release' event: the name is free again
LockRelease(s) ==
    /\ uplink[s] # << >>
    /\ Head(uplink[s])[2] = <<"release", None>>
    /\ uplink' = [uplink EXCEPT ![s] = Tail(@)]
    /\ locks' = locks \ {Head(uplink[s])[1]}
    /\ UNCHANGED <<procs, downlink, sessVars, chanVars, negVars, regVars, recVars>>

\* the front-end takes the 'disconnect' notice of session s
TakeDisconnect(s) ==
    /\ uplink[s] # << >>
    /\ Head(uplink[s])[1] = "disconnect"
    /\ uplink' = [uplink EXCEPT ![s] = Tail(@)]
    /\ UNCHANGED <<procs, downlink, locks, sessVars, chanVars, negVars, regVars, recVars>>

\* --------------------------------------------- producers of one channel

\* the session process (one thread) sends on the child end; the resize
\* callback and the front-end's relay send on the parent end
Producers == {"session", "naws", "relay"}
End(p) == IF p = "session" THEN "child" ELSE "parent"

\* sends begun so far on the channel
Begun ==
    Len(pipe["child"]) + Len(pipe["parent"])
        + Cardinality({p \in Producers : prod[p].pc = "sending"})

\* producer p enters Connection.send with the message named event
Begin(p, event) ==
    /\ prod[p].pc = "idle"
    /\ prod' = [prod EXCEPT ![p] = [pc |-> "sending", event |-> event]]

\* session.py:496-511  Session.send_event: the send is entered inside
\* `with self.lock`
SendEvent ==
    /\ Begun < MaxChanSent
    /\ lock["child"] = None
    /\ lock' = [lock EXCEPT !["child"] = Some("session")]
    /\ Begin("session", "route")
    /\ UNCHANGED <<pipe, sessVars, nodeVars, negVars, regVars, recVars>>

\* terminal.py:81-85  IPCStream.write: self.channel.send
StreamWrite ==
    /\ Begun < MaxChanSent
    /\ Begin("session", "output")
    /\ UNCHANGED <<lock, pipe, sessVars, nodeVars, negVars, regVars, recVars>>

\* terminal.py:71  start_process: pipe.send of the 'disconnect' notice
ProcessExit ==
    /\ Begun < MaxChanSent
    /\ Begin("session", "disconnect")
    /\ UNCHANGED <<lock, pipe, sessVars, nodeVars, negVars, regVars, recVars>>

\* terminal.py:117-129  on_naws: o_pipe.send of the 'refresh' event
OnNaws ==
    /\ Begun < MaxChanSent
    /\ Begin("naws", "refresh")
    /\ UNCHANGED <<lock, pipe, sessVars, nodeVars, negVars, regVars, recVars>>

\* the front-end's relay sends client input to the session, holding the
\* lock registered with the channel (terminal.py:165-169)
RelaySend ==
    /\ Begun < MaxChanSent
    /\ lock["parent"] = None
    /\ lock' = [lock EXCEPT !["parent"] = Some("relay")]
    /\ Begin("relay", "input")
    /\ UNCHANGED <<pipe, sessVars, nodeVars, negVars, regVars, recVars>>

\* the send of producer p returns: the message is on the channel; a
\* producer that took the lock leaves its `with` block (session.py:510);
\* after the 'disconnect' notice the session process ends
SendReturns(p) ==
    /\ prod[p].pc = "sending"
    /\ pipe' = [pipe EXCEPT ![End(p)] = Append(@, prod[p].event)]
    /\ lock' = [lock EXCEPT
                   ![End(p)] = IF @ = Some(p) THEN None ELSE @]
    /\ prod' = [prod EXCEPT
                   ![p].pc = IF prod[p].event = "disconnect"
                             THEN "exit" ELSE "idle"]
    /\ UNCHANGED <<sessVars, nodeVars, negVars, regVars, recVars>>

\* ------------------------------------------------ the telnet negotiation
\* ConnectTelnetTerminal of terminal.py: one thread per connection.  Times
\* are counted in units of 0.05 seconds.

\* terminal.py:142  TTYPE_UNDETECTED
TTYPE_UNDETECTED == "unknown"

\* terminal.py:143-146  WINSIZE_TRICK: the families in the order tried, each
\* with its query; the response pattern of a family is Match below
WINSIZE_TRICK == << "vt100", "sun" >>

\* what a client may write back: the answer to the vt100 query
\* (ESC[40;100R) and the answer to the sun query (ESC[8;30;90t); each is
\* text without a match for the other family's pattern
Responses ==
    { [kind |-> "vt100", height |-> 40, width |-> 100],
      [kind |-> "sun", height |-> 30, width |-> 90] }

\* the window sizes a client may report through NAWS, <<lines, columns>>
NawsSizes == { <<50, 132>> }

\* the terminal types a client may report
TermTypes == { "xterm" }

\* the answers a client may give to the NEW_ENVIRON request
EnvAnswers == { "True", "False" }

\* the first response of family kind in the input inp, captured as
\* <<height, width>> (terminal.py:144,146: both patterns capture the row
\* first), None when there is none
MatchSwapped(kind, inp) ==
    LET hits == SelectSeq(inp, LAMBDA r : r.kind = kind) IN
    IF hits = << >> THEN None ELSE Some(<<hits[1].width, hits[1].height>>)

\* terminal.py:310  response_pattern.search(inp): the first response of
\* family kind in the input inp, captured as <<height, width>>
\* (terminal.py:144,146: both patterns capture the row first), None when
\* there is none
Match(kind, inp) ==
    LET hits == SelectSeq(inp, LAMBDA r : r.kind = kind) IN
    IF hits = << >> THEN None ELSE Some(<<hits[1].height, hits[1].width>>)

\* a clock that never runs out
TimeleftAlways(elapsed) == TRUE

\* terminal.py:228-233  _timeleft: less than TIME_WAIT has passed since
\* st_time
Timeleft(elapsed) == elapsed < TIME_WAIT

\* the client as it is after d units of time: idle() grows, up to the
\* largest value the negotiation tells apart
Slept(c, d) ==
    [c EXCEPT !.idle = IF @ + d > TIME_PAUSE THEN TIME_PAUSE ELSE @ + d]

\* the client after send_str or a request_ call: text is queued for output
Queued(c, text) == [c EXCEPT !.out = Append(@, text)]

\* the client stays active
DeactivatedNot(c) == c

\* terminal.py:224,226  client.deactivate()
Deactivated(c) == [c EXCEPT !.active = FALSE]

\* terminal.py:211-226  run: socket.error or ConnectionClosed raised by any
\* step ends the thread with the client deactivated; _spawn_session is not
\* reached
Abort ==
    /\ neg' = [neg EXCEPT !.pc = "aborted"]
    /\ client' = Deactivated(client)
    /\ UNCHANGED <<registry, spawned>>

\* the negotiation thread goes on to position p with client c
Goes(p, c) ==
    /\ neg' = [neg EXCEPT !.pc = p, !.elapsed = 0]
    /\ client' = c
    /\ UNCHANGED <<registry, spawned>>

\* client.socket_send(): the queued output goes to the socket; on a
\* connection the client has closed it raises, else the thread goes on to
\* position p with client c
SocketSend(p, c) == IF client.closed THEN Abort ELSE Goes(p, c)

\* one turn of a polling loop: time.sleep(TIME_POLL)
Poll ==
    /\ neg' = [neg EXCEPT !.elapsed = @ + TIME_POLL]
    /\ client' = Slept(client, TIME_POLL)
    /\ UNCHANGED <<registry, spawned>>

\* terminal.py:236-242  _set_socket_opts: raises socket.error on a socket
\* that was closed
SetSocketOpts ==
    /\ neg.pc = "run"
    /\ SocketSend("banner", client)
    /\ UNCHANGED <<sessVars, nodeVars, chanVars, regVars, recVars>>

\* terminal.py:172-187  banner, up to the waiting loop: sleep 0.25 s, the
\* three requests, st_time and mrk_bytes are taken
Banner ==
    /\ neg.pc = "banner"
    /\ neg' = [neg EXCEPT !.pc = "banner_wait", !.elapsed = 0,
                          !.mrk_bytes = client.bytes_received]
    /\ client' = Queued(Queued(Queued(Slept(client, BannerWait),
                     "will-echo"), "will-sga"), "do-sga")
    /\ UNCHANGED <<registry, spawned>>
    /\ UNCHANGED <<sessVars, nodeVars, chanVars, regVars, recVars>>

\* terminal.py:187-196  the banner's waiting loop, then sleep(TIME_POLL * 2)
BannerWaits ==
    /\ neg.pc = "banner_wait"
    /\ IF /\ (0 = neg.mrk_bytes \/ neg.mrk_bytes = client.bytes_received)
          /\ neg.elapsed < BannerWait
       THEN Poll
       ELSE Goes("try_env", Slept(client, TIME_POLL * 2))
    /\ UNCHANGED <<sessVars, nodeVars, chanVars, regVars, recVars>>

\* terminal.py:245-258  _try_env up to its waiting loop
TryEnv ==
    /\ neg.pc = "try_env"
    /\ IF client.new_environ = "True"
       THEN Goes("try_ttype", client)
       ELSE SocketSend("env_wait", Queued(client, "do-env"))
    /\ UNCHANGED <<sessVars, nodeVars, chanVars, regVars, recVars>>

\* terminal.py:259-262  the waiting loop of _try_env
EnvWaits ==
    /\ neg.pc = "env_wait"
    /\ IF client.new_environ = "UNKNOWN" /\ Timeleft(neg.elapsed)
       THEN Poll
       ELSE Goes("try_ttype", client)
    /\ UNCHANGED <<sessVars, nodeVars, chanVars, regVars, recVars>>

\* terminal.py:332-346  _try_ttype up to its waiting loop
TryTtype ==
    /\ neg.pc = "try_ttype"
    /\ IF client.env.TERM # TTYPE_UNDETECTED
       THEN Goes("try_naws", client)
       ELSE SocketSend("ttype_wait", Queued(client, "ttype"))
    /\ UNCHANGED <<sessVars, nodeVars, chanVars, regVars, recVars>>

\* terminal.py:348-351  the waiting loop of _try_ttype
TtypeWaits ==
    /\ neg.pc = "ttype_wait"
    /\ IF client.env.TERM = TTYPE_UNDETECTED /\ Timeleft(neg.elapsed)
       THEN Poll
       ELSE Goes("try_naws", client)
    /\ UNCHANGED <<sessVars, nodeVars, chanVars, regVars, recVars>>

\* terminal.py:265-276  _try_naws up to its waiting loop: a size already
\* known is logged, the request is sent all the same
TryNaws ==
    /\ neg.pc = "try_naws"
    /\ SocketSend("naws_wait", Queued(client, "do-naws"))
    /\ UNCHANGED <<sessVars, nodeVars, chanVars, regVars, recVars>>

\* terminal.py:277-293  the waiting loop of _try_naws; with both values it
\* returns, else the cursor position is saved and the first family is
\* tried
NawsWaits ==
    /\ neg.pc = "naws_wait"
    /\ IF /\ client.env.LINES = None
          /\ client.env.COLUMNS = None
          /\ Timeleft(neg.elapsed)
       THEN Poll
       ELSE IF client.env.LINES # None /\ client.env.COLUMNS # None
            THEN Goes("spawn", client)
            ELSE /\ neg' = [neg EXCEPT !.pc = "query", !.elapsed = 0,
                                       !.family = 1]
                 /\ client' = Queued(client, "save")
                 /\ UNCHANGED <<registry, spawned>>
    /\ UNCHANGED <<sessVars, nodeVars, chanVars, regVars, recVars>>

\* terminal.py:295-301  one family of WINSIZE_TRICK is tried: the cursor is
\* moved to 999;999, the family's query is sent
Query ==
    /\ neg.pc = "query"
    /\ SocketSend("query_wait",
                  Queued(Queued(client, "move"), WINSIZE_TRICK[neg.family]))
    /\ UNCHANGED <<sessVars, nodeVars, chanVars, regVars, recVars>>

\* the client after a response matched for family kind: terminal.py:312-320
Probed(c, kind, m) ==
    [c EXCEPT !.rows = m[1][1], !.columns = m[1][2],
              !.env = [@ EXCEPT
                  !.TERM = IF @ = TTYPE_UNDETECTED THEN kind ELSE @,
                  !.LINES = Some(m[1][1]),
                  !.COLUMNS = Some(m[1][2])]]

\* the client after no family matched: terminal.py:325-329
Defaulted(c) ==
    [c EXCEPT !.rows = 24, !.columns = 80,
              !.env = [@ EXCEPT !.LINES = Some(24), !.COLUMNS = Some(80)]]

\* terminal.py:302-329  the waiting loop of a query, then get_input, the
\* cursor is restored, and the input is searched for the family's pattern:
\* a match sets the size and returns, else the next family is tried, and
\* after the last one the size is 80 x 24
QueryWaits ==
    /\ neg.pc = "query_wait"
    /\ LET kind == WINSIZE_TRICK[neg.family]
           inp == client.input
           taken == Queued([client EXCEPT !.input = << >>], "restore")
           match == Match(kind, inp)
       IN
       IF client.idle < TIME_PAUSE /\ Timeleft(neg.elapsed)
       THEN Poll
       ELSE IF client.closed
       THEN Abort
       ELSE IF match # None
       THEN /\ neg' = [neg EXCEPT !.pc = "spawn", !.elapsed = 0,
                                  !.match = match]
            /\ client' = Probed(taken, kind, match)
            /\ UNCHANGED <<registry, spawned>>
       ELSE IF neg.family < Len(WINSIZE_TRICK)
       THEN /\ neg' = [neg EXCEPT !.pc = "query", !.elapsed = 0,
                                  !.family = @ + 1]
            /\ client' = taken
            /\ UNCHANGED <<registry, spawned>>
       ELSE Goes("spawn", Defaulted(taken))
    /\ UNCHANGED <<sessVars, nodeVars, chanVars, regVars, recVars>>

\* terminal.py:203, 154-169, 20-24  line wrap is disabled, then
\* _spawn_session: the process is started with client.env and the client
\* is registered
SpawnSession ==
    /\ neg.pc = "spawn"
    /\ neg' = [neg EXCEPT !.pc = "spawned"]
    /\ client' = Queued(client, "nowrap")
    /\ spawned' = Some(client.env)
    /\ registry' = Append(registry, "client")
    /\ UNCHANGED <<sessVars, nodeVars, chanVars, regVars, recVars>>

\* the steps of the negotiation thread
Negotiator ==
    \/ SetSocketOpts
    \/ Banner
    \/ BannerWaits
    \/ TryEnv
    \/ EnvWaits
    \/ TryTtype
    \/ TtypeWaits
    \/ TryNaws
    \/ NawsWaits
    \/ Query
    \/ QueryWaits
    \/ SpawnSession

\* ---- the telnet client, driven by the server's receive loop while the
\* ---- negotiation thread polls

\* the client after any bytes arrived from it
Received(c) == [c EXCEPT !.bytes_received = @ + 1, !.idle = 0]

\* the thread is still negotiating and the client may still write
Talking ==
    /\ neg.pc \notin {"spawned", "aborted"}
    /\ ~client.closed
    /\ client.bytes_received < MaxReceived

\* the client answers an option request the negotiation does not wait for
ClientOption ==
    /\ Talking
    /\ client' = Received(client)
    /\ UNCHANGED <<neg, registry, spawned, sessVars, nodeVars, chanVars, regVars, recVars>>

\* the client answers the NEW_ENVIRON request
ClientEnv(answer) ==
    /\ Talking
    /\ client.new_environ = "UNKNOWN"
    /\ client' = [Received(client) EXCEPT !.new_environ = answer]
    /\ UNCHANGED <<neg, registry, spawned, sessVars, nodeVars, chanVars, regVars, recVars>>

\* the client reports its terminal type
ClientTtype(type) ==
    /\ Talking
    /\ client' = [Received(client) EXCEPT !.env.TERM = type]
    /\ UNCHANGED <<neg, registry, spawned, sessVars, nodeVars, chanVars, regVars, recVars>>

\* the client reports its window size through NAWS
ClientNaws(size) ==
    /\ Talking
    /\ client' = [Received(client) EXCEPT !.env.LINES = Some(size[1]),
                                          !.env.COLUMNS = Some(size[2]),
                                          !.naws = Some(size)]
    /\ UNCHANGED <<neg, registry, spawned, sessVars, nodeVars, chanVars, regVars, recVars>>

\* the client writes a response
ClientInput(response) ==
    /\ Talking
    /\ client' = [Received(client) EXCEPT !.input = Append(@, response)]
    /\ UNCHANGED <<neg, registry, spawned, sessVars, nodeVars, chanVars, regVars, recVars>>

\* the client closes the connection
ClientClose ==
    /\ neg.pc \notin {"spawned", "aborted"}
    /\ ~client.closed
    /\ client' = [client EXCEPT !.closed = TRUE]
    /\ UNCHANGED <<neg, registry, spawned, sessVars, nodeVars, chanVars, regVars, recVars>>

\* ---------------------------------------------------- the registry
\* TERMINALS of terminal.py, a list shared by every thread of the
\* front-end; an entry (client, pipe, lock) is written as its client

\* terminal.py:26-30  unregister_terminal: TERMINALS.remove(entry) takes
\* out the first equal entry
unregister_terminal(list, entry) ==
    LET at == CHOOSE i \in 1..Len(list) :
                  list[i] = entry /\ \A j \in 1..(i - 1) : list[j] # entry
    IN SubSeq(list, 1, at - 1) \o SubSeq(list, at + 1, Len(list))

\* terminal.py:20-24  register_terminal: TERMINALS.append(entry)
register_terminal(list, entry) == Append(list, entry)

\* terminal.py:99-103  on_disconnect is called for client c: the loop over
\* terminals() starts at the head of the list
OnDisconnect(c) ==
    /\ tasks[c].pc = "idle"
    /\ tasks' = [tasks EXCEPT ![c].pc = "scan", ![c].idx = 1]
    /\ UNCHANGED <<sessVars, nodeVars, chanVars, negVars, recVars>>

\* terminal.py:103-107  one turn of the loop of on_disconnect for client
\* c: past the end of the list the call returns without a value; the entry
\* of c is unregistered and the call returns True; any other entry is
\* passed over
Scan(c) ==
    /\ tasks[c].pc = "scan"
    /\ IF tasks[c].idx > Len(registry)
       THEN /\ tasks' = [tasks EXCEPT ![c].pc = "done"]
            /\ registry' = registry
       ELSE IF registry[tasks[c].idx] = c
       THEN /\ tasks' = [tasks EXCEPT ![c].pc = "done", ![c].found = TRUE]
            /\ registry' = unregister_terminal(registry, c)
       ELSE /\ tasks' = [tasks EXCEPT ![c].idx = @ + 1]
            /\ registry' = registry
    /\ UNCHANGED <<neg, client, spawned, sessVars, nodeVars, chanVars, recVars>>

\* terminal.py:154-169  the thread of client c ends its negotiation in
\* _spawn_session: the client is registered
Registers(c) ==
    /\ tasks[c].thread = "run"
    /\ tasks' = [tasks EXCEPT ![c].thread = "spawned"]
    /\ registry' = register_terminal(registry, c)
    /\ UNCHANGED <<neg, client, spawned, sessVars, nodeVars, chanVars, recVars>>

\* terminal.py:221-226  the thread of client c ends its negotiation in
\* abort: nothing is registered
Aborts(c) ==
    /\ tasks[c].thread = "run"
    /\ tasks' = [tasks EXCEPT ![c].thread = "aborted"]
    /\ UNCHANGED <<sessVars, nodeVars, chanVars, negVars, recVars>>

\* ------------------------------------------ window-size notifications

\* the window sizes a client may change to, <<lines, columns>>
ResizeSizes == { <<50, 132>>, <<60, 160>> }

\* terminal.py:203, 163-168  line wrap is disabled; _spawn_session creates
\* the pipe and the lock and starts the session process with client.env
ProcStart ==
    /\ neg.pc = "spawn"
    /\ neg' = [neg EXCEPT !.pc = "register"]
    /\ client' = Queued(client, "nowrap")
    /\ spawned' = Some(client.env)
    /\ UNCHANGED <<registry, sessVars, nodeVars, chanVars, regVars, recVars>>

\* terminal.py:169  _spawn_session: register_terminal
RegisterTerminal ==
    /\ neg.pc = "register"
    /\ neg' = [neg EXCEPT !.pc = "spawned"]
    /\ registry' = register_terminal(registry, "client")
    /\ UNCHANGED <<client, spawned, sessVars, nodeVars, chanVars, regVars, recVars>>

\* terminal.py:117-129  on_naws for client c with environment env: the
\* channel queue after the call; a 'refresh' event is sent when c is found
\* in the list, nothing happens when it is not
on_naws(list, c, env, queue) ==
    IF \E k \in 1..Len(list) : list[k] = c
    THEN Append(queue,
                <<"refresh", <<"resize", <<env.COLUMNS[1], env.LINES[1]>>>>>>)
    ELSE queue

\* the client reports a new window size: the telnet layer stores it in the
\* client's environment and calls on_naws
Resizes(size) ==
    /\ neg.pc \in {"spawn", "register", "spawned"}
    /\ size # <<client.env.LINES[1], client.env.COLUMNS[1]>>
    /\ client.bytes_received < MaxResizes
    /\ client' = [Received(client) EXCEPT !.env.LINES = Some(size[1]),
                                          !.env.COLUMNS = Some(size[2]),
                                          !.naws = Some(size)]
    /\ iqueue' = on_naws(registry, "client", client'.env, iqueue)
    /\ sent' = IF iqueue' = iqueue THEN sent ELSE sent + 1
    /\ UNCHANGED <<script_stack, calls, pc, signal, notice, buffer, oqueue,
                   ret, lastRefresh, term, node, answered, refused,
                   fp_ttyrec, record_tty, mesg, closes>>
    /\ UNCHANGED <<neg, registry, spawned, nodeVars, chanVars, regVars, recVars>>

\* ------------------------------------------- output, encoding, recordings

\* bounds of the recording specifications
MaxWrites == 2
MaxClock == 1500000

\* time.time() advances by these amounts, in microseconds
TimeSteps == {750001, 1500000}

\* one second, in microseconds
Second == 1000000

\* the texts scripts write: nothing, "hi", a shaded block, a shift-out
Texts == {<< >>, <<104, 105>>, <<9617>>, <<14>>}

\* the values assigned to Session.encoding; "None" stands for None
Encodings == {"utf8", "cp437", "latin1", "None"}

\* the recording folders of the configuration; "." is the working
\* directory of the process
Folders == {"ttyrecordings", "."}

\* the table of x84.bbs.cp437, glyph to index, for the glyphs written
CP437 == (104 :> 104) @@ (105 :> 105) @@ (9617 :> 176)

\* Session.TRIM_CP437: shift-out and shift-in
TRIM_CP437 == {14, 15}

\* one glyph through ucs.encode('iso8859-1', 'replace')
Latin1(glyph) == IF glyph < 256 THEN glyph ELSE 63

\* write(): the text for a cp437 terminal, glyph by glyph
RECURSIVE AsCp437(_)
AsCp437(ucs) ==
    IF ucs = << >> THEN << >>
    ELSE (IF Head(ucs) \in DOMAIN CP437 /\ Head(ucs) \notin TRIM_CP437
          THEN <<CP437[Head(ucs)]>>
          ELSE IF Latin1(Head(ucs)) \in TRIM_CP437 THEN << >>
               ELSE <<Latin1(Head(ucs))>>)
         \o AsCp437(Tail(ucs))

\* one code point through encode('utf8')
Utf8(cp) ==
    IF cp < 128 THEN <<cp>>
    ELSE IF cp < 2048 THEN <<192 + (cp \div 64), 128 + (cp % 64)>>
    ELSE <<224 + (cp \div 4096), 128 + ((cp \div 64) % 64),
          128 + (cp % 64)>>

\* ucs.encode('utf8', 'replace')
RECURSIVE Encode(_)
Encode(ucs) ==
    IF ucs = << >> THEN << >> ELSE Utf8(Head(ucs)) \o Encode(Tail(ucs))

\* struct.pack('<I', n): four bytes, least significant first
Pack(n) ==
    <<n % 256, (n \div 256) % 256, (n \div 65536) % 256,
      (n \div 16777216) % 256>>

\* struct.unpack('<I', b), what a player of the recording reads
Unpack(b) == b[1] + 256 * b[2] + 65536 * b[3] + 16777216 * b[4]

\* '%d' % n, as code points
RECURSIVE Digits(_)
Digits(n) ==
    IF n < 10 THEN <<48 + n>> ELSE Digits(n \div 10) \o <<48 + (n % 10)>>

\* _ttyrec_write: the chunk of text ucs written timekey microseconds
\* after the session started
ChunkMillis(timekey, ucs) ==
    Pack(timekey \div Second) \o Pack((timekey % Second) \div 1000)
        \o Pack(Len(Encode(ucs))) \o Encode(ucs)
Chunk(timekey, ucs) ==
    Pack(timekey \div Second) \o Pack(timekey % Second)
        \o Pack(Len(Encode(ucs))) \o Encode(ucs)

\* a player reading the chunks of a file back
RECURSIVE Chunks(_)
Chunks(bytes) ==
    IF Len(bytes) < 12 THEN << >>
    ELSE LET len == Unpack(SubSeq(bytes, 9, 12))
         IN  <<[sec |-> Unpack(SubSeq(bytes, 1, 4)),
                usec |-> Unpack(SubSeq(bytes, 5, 8)),
                len |-> len,
                text |-> SubSeq(bytes, 13, 12 + len)]>>
             \o Chunks(SubSeq(bytes, 13 + len, Len(bytes)))

\* the sessions that record, and the addresses they connect from
Recorders == {"a", "b"}
Sids ==
    ("a" :> [addr |-> "10.0.0.1", port |-> 1])
        @@ ("b" :> [addr |-> "10.0.0.1", port |-> 2])

\* the size of the terminal of a session
Height == 24
Width == 80

\* terminal.normal
Normal == <<27, 91, 109>>

\* u'\r\n'
CRLF == <<13, 10>>

\* the lines of info() joined, reduced to the line of the session id
InfoLines(r) ==
    <<115, 105, 100, 58, 32>> \o Digits(r.sid.port)

\* the encoding setter: a value that differs from the current one is
\* checked, stored and handed to the keyboard decoder
SetEncoding(r, value) ==
    IF value # r.encoding
    THEN IF value \in {"utf8", "cp437"}
         THEN [r EXCEPT !.encoding = value, !.decoder = value,
                        !.error = ""]
         ELSE [r EXCEPT !.error = "AssertionError"]
    ELSE [r EXCEPT !.error = ""]

\* Session.__init__
Session(sid, value, rec, now) ==
    SetEncoding([sid |-> sid, encoding |-> "None", decoder |-> "None",
                 error |-> "", record |-> rec, connect |-> now,
                 fp |-> None, fname |-> None, out |-> << >>,
                 calls |-> 0, closes |-> 0], value)

\* a write of data at position pos of an open file
WriteAt(bytes, pos, data) ==
    [i \in 1..(IF Len(bytes) > pos + Len(data)
               THEN Len(bytes) ELSE pos + Len(data)) |->
        IF i > pos /\ i <= pos + Len(data) THEN data[i - pos]
        ELSE IF i <= Len(bytes) THEN bytes[i] ELSE 0]

\* _ttyrec_write on the files and the session st holds
ttyrec_write(st, ucs, now) ==
    LET fp == st.r.fp[1]
        data == Chunk(now - st.r.connect, ucs)
    IN  [files |-> [st.files EXCEPT
                        ![fp.path] = WriteAt(@, fp.pos, data)],
         r |-> [st.r EXCEPT
                    !.fp = Some([fp EXCEPT !.pos = @ + Len(data)])]]

\* _ttyrec_write_header: the size of the terminal, then UTF-8 mode
ttyrec_write_headerSwapped(st, now) ==
    ttyrec_write(
        ttyrec_write(st, <<27, 37, 71>>, now),
        <<27, 91, 56, 59>> \o Digits(Height) \o <<59>> \o Digits(Width)
            \o <<116>>, now)
ttyrec_write_header(st, now) ==
    ttyrec_write(
        ttyrec_write(st, <<27, 91, 56, 59>> \o Digits(Height) \o <<59>>
                             \o Digits(Width) \o <<116>>, now),
        <<27, 37, 71>>, now)

\* os.path.exists(name), a name being relative to the working directory
Exists(files, name) == <<".", name>> \in DOMAIN files

\* the loop of start_recording: the first digit whose name does not exist
RECURSIVE FirstFree(_, _, _, _)
FirstFree(files, stamp, addr, digit) ==
    IF Exists(files, [stamp |-> stamp, digit |-> digit, addr |-> addr])
    THEN FirstFree(files, stamp, addr, digit + 1)
    ELSE digit

\* start_recording: the file is opened 'wb+' in the recording folder
start_recording(st, folder, now) ==
    LET name == [stamp |-> now \div Second,
                 digit |-> FirstFree(st.files, now \div Second,
                                     st.r.sid.addr, 0),
                 addr |-> st.r.sid.addr]
        path == <<folder, name>>
    IN  ttyrec_write_header(
            [files |-> (path :> << >>) @@ st.files,
             r |-> [st.r EXCEPT !.fname = Some(name),
                                !.fp = Some([path |-> path, pos |-> 0])]],
            now)

\* stop_recording
stop_recording(st, now) ==
    LET normal == ttyrec_write(st, Normal, now)
        blank == ttyrec_write(normal, CRLF \o CRLF, now)
        lines == ttyrec_write(blank, InfoLines(st.r), now)
        last == ttyrec_write(lines, CRLF, now)
    IN  [last EXCEPT !.r.fp = None]

\* a session is constructed for a connection; a constructor that raises
\* leaves no session
Connects(s, value, rec) ==
    /\ s \notin DOMAIN recorders
    /\ Session(Sids[s], value, rec, clock).error = ""
    /\ recorders' = (s :> Session(Sids[s], value, rec, clock)) @@ recorders
    /\ UNCHANGED <<clock, disk, sessVars, nodeVars, chanVars, negVars,
                   regVars>>

\* time passes
Passes(dt) ==
    /\ clock + dt <= MaxClock
    /\ clock' = clock + dt
    /\ UNCHANGED <<disk, recorders, sessVars, nodeVars, chanVars, negVars,
                   regVars>>

\* an assignment to Session.encoding
Assigns(s, value) ==
    /\ s \in DOMAIN recorders
    /\ recorders[s].closes = 0
    /\ recorders' = [recorders EXCEPT ![s] = SetEncoding(@, value)]
    /\ UNCHANGED <<clock, disk, sessVars, nodeVars, chanVars, negVars,
                   regVars>>

\* Session.write(ucs)
Write(s, ucs) ==
    /\ s \in DOMAIN recorders
    /\ recorders[s].closes = 0
    /\ recorders[s].encoding \in {"utf8", "cp437"}
    /\ recorders[s].calls < MaxWrites
    /\ LET r == [recorders[s] EXCEPT !.calls = @ + 1]
           encoded == IF r.encoding = "cp437" THEN AsCp437(ucs) ELSE ucs
           wrote == [r EXCEPT !.out = Append(@,
                        [text |-> encoded,
                         encoding |-> IF r.encoding = "cp437"
                                      THEN "iso8859-1" ELSE r.encoding,
                         at |-> clock - r.connect])]
           st == [files |-> disk.files, r |-> wrote]
           open == IF wrote.fp = None
                   THEN start_recording(st, disk.path, clock) ELSE st
           done == ttyrec_write(open, encoded, clock)
       IN  IF Len(ucs) = 0
           THEN /\ recorders' = [recorders EXCEPT ![s] = r]
                /\ UNCHANGED disk
           ELSE IF ~r.record
           THEN /\ recorders' = [recorders EXCEPT ![s] = wrote]
                /\ UNCHANGED disk
           ELSE /\ recorders' = [recorders EXCEPT ![s] = done.r]
                /\ disk' = [disk EXCEPT !.files = done.files]
    /\ UNCHANGED <<clock, sessVars, nodeVars, chanVars, negVars, regVars>>

\* a script calls stop_recording
StopRecording(s) ==
    /\ s \in DOMAIN recorders
    /\ recorders[s].closes = 0
    /\ recorders[s].fp # None
    /\ LET done == stop_recording([files |-> disk.files,
                                   r |-> recorders[s]], clock)
       IN  /\ recorders' = [recorders EXCEPT ![s] = done.r]
           /\ disk' = [disk EXCEPT !.files = done.files]
    /\ UNCHANGED <<clock, sessVars, nodeVars, chanVars, negVars, regVars>>

\* Session.close(), called when run returns and once more by the process
\* wrapper: the recording part
Close(s) ==
    /\ s \in DOMAIN recorders
    /\ recorders[s].closes < 2
    /\ LET st == [files |-> disk.files,
                  r |-> [recorders[s] EXCEPT !.closes = @ + 1]]
           done == IF st.r.fp # None THEN stop_recording(st, clock)
                   ELSE st
       IN  /\ recorders' = [recorders EXCEPT ![s] = done.r]
           /\ disk' = [disk EXCEPT !.files = done.files]
    /\ UNCHANGED <<clock, sessVars, nodeVars, chanVars, negVars, regVars>>

\* ---------------------------------------------------- specifications

\* the clients of the front-end; "client" is the one whose negotiation
\* SpecNeg follows
Clients == {"client", "second", "third"}

\* the client object of a connection just accepted: nothing received yet
Accepted ==
    [active |-> TRUE, closed |-> FALSE, new_environ |-> "UNKNOWN",
     env |-> [TERM |-> TTYPE_UNDETECTED, LINES |-> None, COLUMNS |-> None],
     naws |-> None, rows |-> 24, columns |-> 80, bytes_received |-> 0,
     idle |-> 0, input |-> << >>, out |-> << >>]

\* the sessions of SpecNode run their scripts, no lock name is taken; the
\* producers of SpecChan are idle; the negotiation thread of SpecNeg has
\* just been started for its client
Still ==
    /\ procs = [s \in Sessions |->
                   [pc |-> "script", node |-> None, try |-> 0, cut |-> 0]]
    /\ uplink = [s \in Sessions |-> << >>]
    /\ downlink = [s \in Sessions |-> << >>]
    /\ locks = {}
    /\ prod = [p \in Producers |-> [pc |-> "idle", event |-> "none"]]
    /\ lock = [e \in {"child", "parent"} |-> None]
    /\ pipe = [e \in {"child", "parent"} |-> << >>]
    /\ tasks = [c \in Clients |->
                   [thread |-> "run", pc |-> "idle", idx |-> 1,
                    found |-> FALSE]]

\* nothing is written or recorded
Idle ==
    /\ Still
    /\ clock = 0
    /\ disk = [path |-> ".", files |-> << >>]
    /\ recorders = << >>

\* terminal.py:109-115  on_connect: the thread of the connection is started
\* for a client just accepted; nothing is registered or spawned
Quiet ==
    /\ Idle
    /\ neg = [pc |-> "run", elapsed |-> 0, mrk_bytes |-> 0, family |-> 1,
              match |-> None]
    /\ client = Accepted
    /\ registry = << >>
    /\ spawned = None

\* session.py:54-105  the session as constructed; record_tty and mesg are
\* configuration
Built(rec, msg) ==
    /\ script_stack = << <<MatrixScript>> >>
    /\ calls = << >>
    /\ pc = "loop"
    /\ signal = NoSignal
    /\ notice = None
    /\ buffer = << >>
    /\ iqueue = << >>
    /\ oqueue = << >>
    /\ ret = NoEvent
    /\ sent = 0
    /\ lastRefresh = None
    /\ term = <<80, 24>>
    /\ node = None
    /\ answered = 0
    /\ refused = 0
    /\ fp_ttyrec = None
    /\ record_tty = rec
    /\ mesg = msg
    /\ closes = 0

\* the session as constructed, beside a front-end where nothing has
\* happened yet
Constructed(rec, msg) == Built(rec, msg) /\ Quiet

\* ---- Spec: the run loop and the scripts it runs

Init == \E msg \in BOOLEAN : Constructed(FALSE, msg)

\* frames scripts pass to gosub
Frames == {<<"main">>, <<"nosuch">>}

\* what a script body raises
Raised == {GotoSignal(<<"main", 1>>), Disconnected, Failure}

\* the messages the front-end sends a session running scripts; the m-th
\* message carries m
EngineMessages(m) ==
    {<<"page", <<m, -1>>>>, <<"page", <<m, 7>>>>,
     <<"exception", Disconnected>>, <<"exception", Failure>>}

\* the read_events calls of the scripts
EngineReads == {<<"input">>}
EngineTimeouts == {None, Some(1)}

Next ==
    \/ RunNext
    \/ RunEnd
    \/ RunGoto
    \/ RunDisconnected
    \/ RunFailure
    \/ WrapperClose
    \/ ScriptReturn
    \/ \E f \in Frames : ScriptGosub(f)
    \/ \E sig \in Raised : ScriptRaise(sig)
    \/ ScriptCatch
    \/ Propagate
    \/ \E ev \in EngineReads, t \in EngineTimeouts : ScriptRead(ev, t)
    \/ PollException
    \/ PollPage
    \/ PollBuffer
    \/ Tick
    \/ \E msg \in EngineMessages(sent + 1) :
            Awaited /\ Send(MaxSent, msg[1], msg[2])

Spec == Init /\ [][Next]_vars

\* ---- SpecLife: a session from construction to the end of its process

InitLife == \E rec \in BOOLEAN : Constructed(rec, TRUE)

LifeRaised == {GotoSignal(<<"main">>), Disconnected, Failure}

LifeMessages == {<<"exception", Disconnected>>, <<"exception", Failure>>}

NextLife ==
    \/ RunNext
    \/ RunEnd
    \/ RunGoto
    \/ RunDisconnected
    \/ RunFailure
    \/ WrapperClose
    \/ ScriptReturn
    \/ \E sig \in LifeRaised : ScriptRaise(sig)
    \/ ScriptCatch
    \/ Propagate
    \/ ScriptWrite("text")
    \/ ScriptNode
    \/ NodeNext
    \/ PollException
    \/ PollBuffer
    \/ \E granted \in BOOLEAN : Awaited /\ Reply(granted)
    \/ \E msg \in LifeMessages : Awaited /\ Send(MaxLifeSent, msg[1], msg[2])

SpecLife == InitLife /\ [][NextLife]_vars

\* ---- SpecBuf: one script reading events the front-end sends at any time

\* the m-th message: a chunk of two keystrokes, a resize or another
\* refresh, an event of a name buffered by the general rule
BufMessages(m) ==
    {<<"input", <<10 * m + 1, 10 * m + 2>>>>,
     <<"refresh", <<"resize", <<80 + m, 24>>>>>>,
     <<"refresh", <<"redraw", m>>>>,
     <<"x", m>>}

BufReads == {<<"input">>, <<"refresh">>, <<"x", "input">>, <<"input", "x">>}
BufTimeouts == {None, Some(-1), Some(1)}

NextBuf ==
    \/ RunNext
    \/ \E ev \in BufReads, t \in BufTimeouts : ScriptRead(ev, t)
    \/ PollBuffer
    \/ Tick
    \/ \E msg \in BufMessages(sent + 1) : Send(MaxBufSent, msg[1], msg[2])

InitBuf == Constructed(FALSE, TRUE)

SpecBuf == InitBuf /\ [][NextBuf]_vars

\* ---- SpecFlush: the script also flushes the buffers of names
FlushNames == {"input", "refresh", "x"}

NextFlush ==
    \/ RunNext
    \/ \E ev \in BufReads, t \in BufTimeouts : ScriptRead(ev, t)
    \/ \E e \in FlushNames : ScriptFlush(e)
    \/ PollBuffer
    \/ Tick
    \/ \E msg \in BufMessages(sent + 1) : Send(MaxBufSent, msg[1], msg[2])

SpecFlush == InitBuf /\ [][NextFlush]_vars

\* ---- SpecGlobal: a script that lets 'global' events pile up

GlobalReads == {<<"x">>, <<"global">>}

NextGlobal ==
    \/ RunNext
    \/ \E ev \in GlobalReads : ScriptRead(ev, Some(1))
    \/ PollBuffer
    \/ Tick
    \/ Awaited /\ Send(MaxGlobalSent, "global", <<"msg", sent + 1>>)

SpecGlobal == InitBuf /\ [][NextGlobal]_vars

\* ---- SpecPage: pages and refreshes reach a script and its chats

PageMessages(m) ==
    {<<"page", <<m, -1>>>>,
     <<"refresh", <<"resize", <<80 + m, 24>>>>>>,
     <<"refresh", <<"redraw", m>>>>}

PageReads == {<<"refresh">>, <<"input">>}
PageTimeouts == {None, Some(1)}

NextPage ==
    \/ RunNext
    \/ ScriptReturn
    \/ \E ev \in PageReads, t \in PageTimeouts : ScriptRead(ev, t)
    \/ PollPage
    \/ PollBuffer
    \/ Tick
    \/ \E msg \in PageMessages(sent + 1) : Send(MaxPageSent, msg[1], msg[2])

SpecPage == InitBuf /\ [][NextPage]_vars

\* ---- SpecInline: a script waits for names that buffer_event may handle
\* ---- inline

InlineMessages(m) ==
    {<<"global", <<"AYT", m>>>>,
     <<"global", <<"msg", m>>>>,
     <<"info-req", <<m>>>>,
     <<"page", <<m, -1>>>>,
     <<"input", << >>>>,
     <<"input", <<10 * m + 1>>>>}

InlineReads == {<<"global">>, <<"info-req">>, <<"page">>, <<"input">>}
InlineTimeouts == {None, Some(1)}

NextInline ==
    \/ RunNext
    \/ ScriptReturn
    \/ \E ev \in InlineReads, t \in InlineTimeouts : ScriptRead(ev, t)
    \/ PollInline
    \/ PollPage
    \/ PollBuffer
    \/ Tick
    \/ \E msg \in InlineMessages(sent + 1) :
            Awaited /\ Send(MaxInlineSent, msg[1], msg[2])

SpecInline == InitBuf /\ [][NextInline]_vars

\* ---- SpecChat: pages reach scripts that call other scripts

ChatMessages(m) ==
    {<<"page", <<m, -1>>>>, <<"page", <<m, 7>>>>, <<"input", <<10 * m + 1>>>>}

ChatTimeouts == {None, Some(1)}

NextChat ==
    \/ RunNext
    \/ RunFailure
    \/ ScriptReturn
    \/ \E f \in Frames : Len(script_stack) < MaxChatDepth /\ Gosub(f)
    \/ ScriptCatch
    \/ Propagate
    \/ \E t \in ChatTimeouts : ScriptRead(<<"input">>, t)
    \/ PollPage
    \/ PollBuffer
    \/ Tick
    \/ \E msg \in ChatMessages(sent + 1) :
            Awaited /\ Send(MaxChatSent, msg[1], msg[2])

SpecChat == Init /\ [][NextChat]_vars

\* ---- SpecNode: session processes acquire, hold and release node numbers

NextNode ==
    \E s \in Sessions :
        \/ NodeFirst(s)
        \/ NodeReply(s)
        \/ SessionEnd(s)
        \/ ProcessClose(s)
        \/ LockAcquire(s)
        \/ LockRelease(s)
        \/ TakeDisconnect(s)

SpecNode == InitBuf /\ [][NextNode]_vars

\* ---- SpecLeak: session processes whose wait for the reply of the lock
\* ---- authority can be interrupted
NextLeak ==
    \/ NextNode
    \/ \E s \in Sessions : NodeInterrupted(s)

SpecLeak == InitBuf /\ [][NextLeak]_vars

\* ---- SpecChan: the producers of one channel

NextChan ==
    \/ SendEvent
    \/ StreamWrite
    \/ ProcessExit
    \/ OnNaws
    \/ RelaySend
    \/ \E p \in Producers : SendReturns(p)

SpecChan == InitBuf /\ [][NextChan]_vars

\* ---- SpecNeg: the negotiation of one connection with any client
\* ---- behaviour
NextNeg ==
    \/ Negotiator
    \/ ClientOption
    \/ \E answer \in EnvAnswers : ClientEnv(answer)
    \/ \E type \in TermTypes : ClientTtype(type)
    \/ \E size \in NawsSizes : ClientNaws(size)
    \/ \E response \in Responses : ClientInput(response)
    \/ ClientClose

SpecNeg == InitBuf /\ [][NextNeg]_vars

\* the negotiation thread keeps running: its sleeps return
SpecNegFair == SpecNeg /\ WF_vars(Negotiator)

\* ---- SpecDisc: the negotiation of one connection while the front-end
\* ---- handles the disconnect of its client
NextDisc ==
    \/ NextNeg
    \/ client.closed /\ OnDisconnect("client")
    \/ Scan("client")

SpecDisc == InitBuf /\ [][NextDisc]_vars

\* ---- SpecReg: the threads of several clients register them while the
\* ---- disconnects of clients are handled
NextReg ==
    \/ \E c \in Clients : Registers(c)
    \/ \E c \in Clients : Aborts(c)
    \/ \E c \in Clients : OnDisconnect(c)
    \/ \E c \in Clients : Scan(c)

SpecReg == InitBuf /\ [][NextReg]_vars

\* ---- SpecSize: a session is spawned and registered for a client that
\* ---- changes its window size

\* the client and the thread of a connection whose client never sent a
\* byte, at the end of the negotiation
Negotiated ==
    [Accepted EXCEPT
        !.idle = TIME_PAUSE,
        !.out = << "will-echo", "will-sga", "do-sga", "do-env", "ttype",
                   "do-naws", "save", "move", "vt100", "restore", "move",
                   "sun", "restore" >>,
        !.env = [TERM |-> TTYPE_UNDETECTED, LINES |-> Some(24),
                 COLUMNS |-> Some(80)]]

InitSize ==
    /\ Built(FALSE, TRUE)
    /\ Idle
    /\ neg = [pc |-> "spawn", elapsed |-> 0, mrk_bytes |-> 0, family |-> 2,
              match |-> None]
    /\ client = Negotiated
    /\ registry = << >>
    /\ spawned = None

SizeReads == {<<"refresh">>, <<"input">>}

NextSize ==
    \/ ProcStart
    \/ RegisterTerminal
    \/ \E size \in ResizeSizes : Resizes(size)
    \/ spawned # None /\ RunNext
    \/ spawned # None /\ ScriptReturn
    \/ \E ev \in SizeReads : spawned # None /\ ScriptRead(ev, None)
    \/ PollBuffer

SpecSize == InitSize /\ [][NextSize]_vars

\* ---- SpecRec: one session writes to its client and is recorded
InitRec ==
    /\ Built(FALSE, FALSE)
    /\ Still
    /\ neg = [pc |-> "run", elapsed |-> 0, mrk_bytes |-> 0, family |-> 1,
              match |-> None]
    /\ client = Accepted
    /\ registry = << >>
    /\ spawned = None
    /\ clock = 0
    /\ disk \in [path : Folders, files : {<< >>}]
    /\ recorders = << >>

NextRec ==
    \/ \E value \in Encodings, rec \in BOOLEAN : Connects("a", value, rec)
    \/ \E dt \in TimeSteps : Passes(dt)
    \/ \E value \in Encodings : Assigns("a", value)
    \/ \E ucs \in Texts : Write("a", ucs)
    \/ Close("a")

SpecRec == InitRec /\ [][NextRec]_vars

\* ---- SpecRec2: two sessions of one address are recorded, and scripts
\* ---- stop recordings
NextRec2 ==
    \/ \E s \in Recorders : Connects(s, "utf8", TRUE)
    \/ \E dt \in TimeSteps : Passes(dt)
    \/ \E s \in Recorders : Write(s, <<104, 105>>)
    \/ \E s \in Recorders : StopRecording(s)
    \/ \E s \in Recorders : Close(s)

SpecRec2 == InitRec /\ [][NextRec2]_vars

\* ---------------------------------------------------- the claims

\* C1: whenever a Goto signal reaches the run loop, whatever the stack
\* holds, the stack becomes the single frame the signal carries and no
\* script is left running; and the frame the loop runs next is always the
\* top frame of the stack, so the loop continues with the Goto's frame.
C1_GotoReplacesStack ==
    [][ /\ AtRun("Goto") =>
            /\ script_stack' = <<signal.frame>>
            /\ pc' = "loop"
            /\ calls' = << >>
        /\ (pc = "loop" /\ pc' = "exec") =>
            /\ script_stack' = script_stack
            /\ Len(calls') = 1
            /\ calls'[1].frame = Last(script_stack)
      ]_vars

\* a Goto raised by a page-triggered chat, two frames down, reaches the
\* run loop
C1_Witness ==
    /\ AtRun("Goto")
    /\ Len(script_stack) >= 3
    /\ Last(script_stack)[1] = "chat"

\* C2: a failure that reaches the run loop removes exactly the faulted
\* frame (the frame of the script that raised it, or that failed to
\* resolve): the frames beneath it are what is left, with a 'continue'
\* notice naming the frame beneath it, or a 'stop' notice when there is
\* none, and the loop goes on.
C2_RecoveryRemovesFaulted ==
    [][ AtRun("Failure") =>
            /\ script_stack' = SubSeq(script_stack, 1, signal.at - 1)
            /\ pc' = "loop"
            /\ IF signal.at > 1
               THEN /\ notice'[1] = "continue"
                    /\ notice'[2] = script_stack[signal.at - 1][1]
               ELSE notice'[1] = "stop"
      ]_vars

\* C3: run() returns only with an empty stack or on a Disconnected
\* signal; when it returns the session has been closed (no recording is
\* open, the release of a claimed node has been sent); and once it has
\* returned no script runs any more.
C3_RunEndsClosed ==
    [][ /\ (pc # "done" /\ pc' = "done") =>
            /\ script_stack' = << >> \/ signal'.kind = "Disconnected"
            /\ closes' >= 1
            /\ fp_ttyrec' = None
            /\ node' # None =>
                 \E i \in 1..Len(oqueue') :
                    oqueue'[i] = <<LockEvent(node'[1]), <<"release", None>>>>
        /\ pc \in {"done", "exit"} =>
            /\ pc' \in {"done", "exit"}
            /\ calls' = << >>
      ]_vars

\* run() has returned on a Disconnected signal with frames left on the
\* stack, for a session that records and holds a node
C3_Witness ==
    /\ pc = "done"
    /\ signal.kind = "Disconnected"
    /\ script_stack # << >>
    /\ node # None
    /\ record_tty
    /\ closes = 1

\* the payloads buffered for a name (none when the name has no buffer)
Held(buf, e) == IF e \in DOMAIN buf THEN buf[e] ELSE << >>

\* this step pulls a message of the name e off the channel
Pulled(e) == iqueue # << >> /\ iqueue' = Tail(iqueue) /\ Head(iqueue)[1] = e

\* the payloads a pulled message adds under its name: the keystrokes of
\* an input chunk, else the payload itself
Units(msg) == IF msg[1] = "input" THEN ToSet(msg[2]) ELSE {msg[2]}

\* this step returns a payload of the name e from read_events
Got(e) == ret' # ret /\ ret'[1] = e

\* C6: for 'input' and a name buffered by the general rule, whose
\* payloads are numbered in the order received: read_events returns a
\* payload that was received and not yet consumed and is older than all
\* that stay buffered; nothing else leaves the buffer; the buffer holds
\* the unconsumed payloads newest first, so they are served oldest first,
\* keystroke by keystroke within a chunk and across chunks.
C6_OldestFirst ==
    [][ \A e \in {"input", "x"} :
          LET before == ToSet(Held(buffer, e))
              after == Held(buffer', e)
              arrived == IF Pulled(e) THEN Units(Head(iqueue)) ELSE {}
          IN  /\ Got(e) => /\ ret'[2] \in before \cup arrived
                           /\ \A i \in 1..Len(after) : ret'[2] < after[i]
              /\ ToSet(after) = (before \cup arrived)
                                  \ (IF Got(e) THEN {ret'[2]} ELSE {})
              /\ \A i, j \in 1..Len(after) : i < j => after[i] > after[j]
      ]_vars

\* a keystroke was returned while three later ones, of two chunks, wait
C6_Witness ==
    /\ ret[1] = "input"
    /\ Len(Held(buffer, "input")) = 3
    /\ \A i \in 1..3 : ret[2] < buffer["input"][i]

\* C7: the 'refresh' buffer never holds more than one payload; the one it
\* holds is the payload buffered last, and a 'refresh' payload returned
\* by read_events is the one buffered last.
C7_RefreshLatestOnly ==
    [][ /\ Len(Held(buffer', "refresh")) <= 1
        /\ Held(buffer', "refresh") # << >> =>
                buffer'["refresh"][1] = lastRefresh'
        /\ Got("refresh") => ret'[2] = lastRefresh'
      ]_vars

\* the synthetic 'page-return' is buffered alone after a resize was
C7_Witness ==
    /\ Held(buffer, "refresh") = << <<"page-return">> >>
    /\ term # <<80, 24>>

\* C8: the 'global' buffer never holds more than 150 entries, and the
\* insertion into a buffer of 150 leaves exactly the 100 entries received
\* last, newest first (so that they are served in arrival order).
C8_GlobalCapped ==
    [][ /\ Len(Held(buffer', "global")) <= 150
        /\ (Pulled("global") /\ Len(Held(buffer, "global")) = 150) =>
              buffer'["global"] =
                 [i \in 1..100 |-> <<"msg", Head(iqueue)[2][2] - i + 1>>]
      ]_vars

\* the 151st unconsumed entry has just cut the buffer to 100
C8_Witness ==
    /\ sent = 151
    /\ Len(Held(buffer, "global")) = 100
    /\ buffer["global"][1] = <<"msg", 151>>
    /\ buffer["global"][100] = <<"msg", 52>>

\* C9: a read_events call that finds data buffered for one of its names
\* returns at once the oldest payload of the first such name in the order
\* given, removes that payload alone, takes no message off the channel
\* and leaves the caller running.
C9_BufferBeforeChannel ==
    [][ \A ev \in BufReads, t \in BufTimeouts :
          (ScriptRead(ev, t) /\ \E i \in 1..Len(ev) : HasData(buffer, ev[i])) =>
             LET i == CHOOSE k \in 1..Len(ev) :
                        /\ HasData(buffer, ev[k])
                        /\ \A j \in 1..(k - 1) : ~HasData(buffer, ev[j])
                 e == ev[i]
             IN  /\ ret' = <<e, Last(buffer[e])>>
                 /\ buffer' = [buffer EXCEPT ![e] = Front(@)]
                 /\ iqueue' = iqueue
                 /\ calls' = calls
      ]_vars

\* 'x' was returned while 'input' stays buffered and a message waits on
\* the channel
C9_Witness ==
    /\ InBody
    /\ ret[1] = "x"
    /\ HasData(buffer, "input")
    /\ iqueue # << >>

\* C10: read_events with a negative timeout and nothing buffered for its
\* names polls the channel once: a waiting message is pulled (and
\* returned when its name is asked for); without one it returns
\* (None, None) at once.
C10_NegativePollsOnce ==
    [][ \A ev \in BufReads :
          (ScriptRead(ev, Some(-1))
              /\ \A i \in 1..Len(ev) : ~HasData(buffer, ev[i])) =>
             IF iqueue # << >>
             THEN /\ iqueue' = Tail(iqueue)
                  /\ Head(iqueue)[1] \in ToSet(ev) => ret'[1] = Head(iqueue)[1]
             ELSE ret' = NoEvent /\ calls' = calls
      ]_vars

\* session s runs scripts: run() has not returned
Live(s) == procs[s].pc \in {"script", "acquire"}

\* C4: with a lock authority that grants a number only while it is free
\* and frees it on a release event, no two live sessions hold the same
\* node number at the same time, the second close of the process wrapper
\* included.
C4_NodesUnique ==
    \A s, t \in Sessions :
        (s # t /\ Live(s) /\ Live(t) /\ procs[s].node # None)
            => procs[s].node # procs[t].node

\* C5: whoever is inside a send on a channel end holds that end's lock,
\* so no two producers are inside a send on the same end at once.
C5_SendsHoldLock ==
    /\ \A p \in Producers :
          prod[p].pc = "sending" => lock[End(p)] = Some(p)
    /\ \A p, q \in Producers :
          (p # q /\ End(p) = End(q))
             => ~(prod[p].pc = "sending" /\ prod[q].pc = "sending")

\* the position in the call chain of the read_events call that pulled the
\* message now handled: the top activation, or the one below a chat that
\* a page started
Puller == IF Top.via = "page" /\ Top.mode = "body"
          THEN Len(calls) - 1 ELSE Len(calls)

\* buffer_event returns in this step for a message that read_events pulled
Handled == PollInline \/ PollBuffer \/ (ScriptReturn /\ Top.via = "page")

\* C11: when buffer_event has handled a pulled message, read_events does
\* not fail; it returns only a payload buffered for one of its names, and
\* while nothing is buffered for them it goes on waiting: a message
\* handled inline or adding nothing to the buffer does not end the wait.
C11_WaitsUntilProduced ==
    [][ Handled =>
          LET reader == calls[Puller]
          IN  /\ pc' = "exec"
              /\ Len(calls') >= Puller
              /\ (\A i \in 1..Len(reader.events) :
                      ~HasData(buffer', reader.events[i])
                      /\ ~HasData(buffer, reader.events[i]))
                    => calls'[Puller].mode = "reading"
      ]_vars

\* C12: a pulled 'exception' message is raised out of read_events with its
\* payload as the failure, no event buffer changes and nothing is
\* returned; the signal keeps its kind while it passes through scripts
\* that do not intercept it, and a Disconnected that reaches the run loop
\* ends the run with the session closed, never through error recovery.
C12_ExceptionRaised ==
    [][ /\ Pulled("exception") =>
              /\ buffer' = buffer
              /\ ret' = ret
              /\ pc' = "unwind"
              /\ signal'.kind = Head(iqueue)[2].kind
        /\ (pc = "unwind" /\ pc' = "unwind") => signal' = signal
        /\ AtRun("Disconnected") =>
              /\ pc' = "done"
              /\ notice' = notice
              /\ script_stack' = script_stack
      ]_vars

\* a Disconnected pulled off the channel is propagating out of the
\* read_events call of a script, with events buffered
C12_Witness ==
    /\ pc = "unwind"
    /\ signal.kind = "Disconnected"
    /\ calls # << >>
    /\ Last(calls).mode = "body"
    /\ DOMAIN buffer # {}
    /\ sent = MaxSent

\* C13: an accepted page pulled off the channel starts the chat script
\* with the page's (channel, sender) on top of the stack, inside the
\* read_events call that pulled it and before anything is buffered; when
\* that chat returns, the stack is again the stack below the chat's
\* frame, the 'refresh' buffer holds exactly 'page-return' and the page's
\* payload is not buffered.
C13_PageRunsChat ==
    [][ /\ (Reading /\ Pulled("page")
                    /\ PageAccepted(script_stack, Head(iqueue))) =>
              LET frame == <<"chat">> \o Head(iqueue)[2]
              IN  /\ script_stack' = Append(script_stack, frame)
                  /\ calls' = Append(calls, Last(calls'))
                  /\ Last(calls').frame = frame
                  /\ Last(calls').mode = "body"
                  /\ buffer' = buffer
        /\ (ScriptReturn /\ Top.via = "page") =>
              /\ script_stack' = SubSeq(script_stack, 1, Top.at - 1)
              /\ Held(buffer', "refresh") = << <<"page-return">> >>
              /\ \A i \in 1..Len(Held(buffer', "page")) :
                    buffer'["page"][i] # <<Top.frame[2], Top.frame[3]>>
      ]_vars

\* C14: a page pulled off the channel while a chat script is executing
\* (the top script or one of its callers) starts no script: the stack and
\* the chain of executing scripts stay as they are and the payload is
\* buffered under 'page'.
C14_NoChatInsideChat ==
    [][ (Reading /\ Pulled("page")
                 /\ \E i \in 1..Len(calls) : calls[i].frame[1] = "chat") =>
            /\ script_stack' = script_stack
            /\ Len(calls') = Len(calls)
            /\ Held(buffer', "page") = <<Head(iqueue)[2]>> \o Held(buffer, "page")
      ]_vars

\* this step sends an 'acquire' request
Asks == Len(Acquires(oqueue')) = Len(Acquires(oqueue)) + 1

\* a reply of the lock authority waits on the channel or in the buffer
ReplyPending ==
    \/ \E i \in 1..Len(iqueue) : iqueue[i][1] \in ToSet(LockNames)
    \/ \E e \in DOMAIN buffer : e \in ToSet(LockNames) /\ buffer[e] # << >>

\* C15: the acquire requests are sent for 1, 2, ... in this order, each
\* one while the node is unset and only after the reply to the one before
\* was read and was not true; a number is claimed only on reading the
\* reply true to the request for it, the last one sent, and no reply true
\* for another number was left unread; a set node lies in 1..63 and never
\* changes; the loop ends with the node unset only after 63 requests, all
\* refused.
C15_AcquireInOrder ==
    [][ LET k == Len(Acquires(oqueue))
        IN  /\ node # None => node' = node
            /\ node' # None => node'[1] \in 1..63
            /\ Asks =>
                  /\ node = None
                  /\ Acquires(oqueue')[k + 1] = Acquire(k + 1)
                  /\ k > 0 => /\ answered = k
                              /\ ~ReplyPending
                              /\ ret[1] = LockEvent(k)
                              /\ ret[2] = FALSE
            /\ (node = None /\ node' # None) =>
                  /\ node'[1] = k
                  /\ answered = k
                  /\ ret[1] = LockEvent(k)
                  /\ ret[2] = TRUE
                  /\ \A e \in DOMAIN buffer :
                        (e \in ToSet(LockNames) /\ e # LockEvent(k)) =>
                            \A i \in 1..Len(buffer[e]) : buffer[e][i] # TRUE
            /\ (pc = "exec" /\ calls # << >> /\ Top.mode = "nodeloop"
                  /\ ~Asks /\ node' = None /\ calls' # calls) =>
                  k = 63 /\ refused = 63
      ]_vars

\* the release events among the messages sent
Releases(q) == SelectSeq(q, LAMBDA m : m[2] = <<"release", None>>)

\* C16: a close of a session that claimed node n sends exactly one release
\* event, the one of lock-node/n; a close of a session without a node
\* sends none; and no release event is sent except by a close.
C16_ReleaseOnClose ==
    [][ LET old == Releases(oqueue)
            new == Releases(oqueue')
            sends == SubSeq(new, Len(old) + 1, Len(new))
        IN  /\ Len(new) >= Len(old)
            /\ IF closes' = closes + 1 /\ node # None
               THEN sends = << <<LockEvent(node[1]), <<"release", None>>>> >>
               ELSE sends = << >>
      ]_vars

\* the session closed holding node 2, after number 1 was refused
C16_Witness ==
    /\ closes = 1
    /\ refused = 1
    /\ node = Some(2)
    /\ Releases(oqueue) = << <<LockEvent(2), <<"release", None>>>> >>

\* the negotiation thread has ended, in abort or in the spawn of a session
Ended == neg.pc \in {"spawned", "aborted"}

\* the negotiation thread is inside one of its waits
InWait ==
    neg.pc \in {"banner_wait", "env_wait", "ttype_wait", "naws_wait",
                "query_wait"}

\* the time allowed to the wait the thread is in has passed
Expired ==
    IF neg.pc = "banner_wait"
    THEN neg.elapsed >= BannerWait
    ELSE neg.elapsed >= TIME_WAIT

\* what the wait the thread is in waits for has happened
Succeeded ==
    CASE neg.pc = "banner_wait" ->
             neg.mrk_bytes # 0 /\ neg.mrk_bytes # client.bytes_received
      [] neg.pc = "env_wait" -> client.new_environ # "UNKNOWN"
      [] neg.pc = "ttype_wait" -> client.env.TERM # TTYPE_UNDETECTED
      [] neg.pc = "naws_wait" ->
             client.env.LINES # None \/ client.env.COLUMNS # None
      [] neg.pc = "query_wait" -> client.idle >= TIME_PAUSE
      [] OTHER -> FALSE

\* C17: whatever the client does, the negotiation thread in the end aborts
\* or spawns the session; a wait is left only on success or when its time
\* has passed, and once its time has passed the next step of the thread
\* leaves it; the thread aborts only on a connection that was closed, never
\* on a timeout alone
C17_NegotiationTerminates ==
    /\ <>Ended
    /\ [][ /\ (InWait /\ neg'.pc # neg.pc) => (Succeeded \/ Expired)
           /\ (InWait /\ Expired /\ neg' # neg) => neg'.pc # neg.pc
           /\ (neg'.pc = "aborted" /\ neg.pc # "aborted") => client.closed
         ]_vars

\* a client that never sent a byte and never closed: every wait ran out
\* and the session was spawned
C17_Witness ==
    /\ neg.pc = "spawned"
    /\ client.bytes_received = 0
    /\ ~client.closed
    /\ spawned # None


\* the next step of the thread is a socket call on a connection that was
\* closed: the socket options, or the socket_send of a probe
Raising ==
    /\ client.closed
    /\ \/ neg.pc \in {"run", "try_naws", "query"}
       \/ neg.pc = "try_env" /\ client.new_environ # "True"
       \/ neg.pc = "try_ttype" /\ client.env.TERM = TTYPE_UNDETECTED
       \/ /\ neg.pc = "query_wait"
          /\ ~(client.idle < TIME_PAUSE /\ Timeleft(neg.elapsed))

\* C18: a socket call of the negotiation that fails aborts it: the thread
\* ends, the client is deactivated, no session process is started and the
\* registry stays without the client, then and ever after
C18_AbortSpawnsNothing ==
    [][ /\ (Raising /\ neg' # neg) =>
               /\ neg'.pc = "aborted"
               /\ ~client'.active
               /\ spawned' = None
               /\ registry' = << >>
        /\ neg.pc = "aborted" =>
               /\ neg' = neg
               /\ ~client.active /\ ~client'.active
               /\ spawned' = None
               /\ registry' = << >>
      ]_vars

\* the connection was closed while the sun query was out: the restore of
\* the cursor failed and the negotiation was aborted
C18_Witness ==
    /\ neg.pc = "aborted"
    /\ neg.family = 2
    /\ Last(client.out) = "sun"
    /\ ~client.active
    /\ spawned = None
    /\ registry = << >>


\* the cursor-position queries among the text sent to the client, in the
\* order sent
Queries(out) ==
    SelectSeq(out, LAMBDA text : \E f \in DOMAIN WINSIZE_TRICK :
                                     text = WINSIZE_TRICK[f])

\* the wait for the answer to a query is over and the connection is open:
\* the thread takes the input and searches it
Searching ==
    /\ neg.pc = "query_wait"
    /\ neg'.pc \notin {"query_wait", "aborted"}

\* C19: the vt100 query is sent before the sun query; when the input
\* holds a response of the family tried, the first such response sets rows
\* and columns (first number rows, second columns), TERM becomes the
\* family's name only if it was 'unknown', and no query is sent any more;
\* no step of the negotiation thread changes a TERM that is known
C19_FirstMatchWins ==
    [][ /\ Queries(client'.out) \in
               { SubSeq(WINSIZE_TRICK, 1, n) : n \in 0..Len(WINSIZE_TRICK) }
        /\ Searching =>
             LET kind == WINSIZE_TRICK[neg.family]
                 inp == client.input
             IN \A i \in 1..Len(inp) :
                  (inp[i].kind = kind /\ \A j \in 1..(i - 1) : inp[j].kind # kind)
                  => /\ client'.rows = inp[i].height
                     /\ client'.columns = inp[i].width
                     /\ client'.env.LINES = Some(inp[i].height)
                     /\ client'.env.COLUMNS = Some(inp[i].width)
                     /\ client'.env.TERM =
                            IF client.env.TERM = TTYPE_UNDETECTED
                            THEN kind ELSE client.env.TERM
                     /\ neg'.match # None
                     /\ neg'.pc = "spawn"
        /\ neg.match # None => Queries(client'.out) = Queries(client.out)
        /\ (neg' # neg /\ client.env.TERM # TTYPE_UNDETECTED)
               => client'.env.TERM = client.env.TERM
      ]_vars

\* the client told its terminal type before it was asked, then answered
\* the vt100 query: the size is the one captured, TERM is as it was and the
\* sun query was never sent
C19_Witness ==
    /\ neg.pc = "spawn"
    /\ neg.match = Some(<<40, 100>>)
    /\ client.rows = 40 /\ client.columns = 100
    /\ client.env.TERM = "xterm"
    /\ \A k \in 1..Len(client.out) : client.out[k] # "ttype"
    /\ Queries(client.out) = << "vt100" >>


\* the window size of an environment map, <<lines, columns>>
WindowSize(env) == <<env.LINES[1], env.COLUMNS[1]>>

\* C20: the environment a session is spawned with holds LINES and COLUMNS:
\* the size the client reported through NAWS if it reported one, else the
\* numbers captured by the cursor-position trick, else 24 lines and 80
\* columns
C20_SpawnedHasWindowSize ==
    [][ (neg.pc = "spawn" /\ neg'.pc = "spawned") =>
          /\ spawned' # None
          /\ spawned'[1].LINES # None
          /\ spawned'[1].COLUMNS # None
          /\ WindowSize(spawned'[1]) =
                 IF client.naws # None THEN client.naws[1]
                 ELSE IF neg.match # None THEN neg.match[1]
                 ELSE <<24, 80>>
      ]_vars


\* C21: the registry holds the client only after its negotiation ended in
\* the spawn of a session, and once on_disconnect has returned for the
\* client and its negotiation thread has ended, the registry does not hold
\* the client
C21_RegistryLifecycle ==
    /\ (\E k \in 1..Len(registry) : registry[k] = "client")
           => neg.pc = "spawned"
    /\ (tasks["client"].pc = "done" /\ Ended)
           => \A k \in 1..Len(registry) : registry[k] # "client"


\* the entries of client c in the list
Entries(list, c) == {k \in 1..Len(list) : list[k] = c}

\* C22: whatever the interleaving of registrations and disconnect
\* handling for different clients, the on_disconnect call of a client that
\* is registered takes out that client's entry and no other, no step takes
\* out the entry of a client other than the one whose disconnect is
\* handled, and no client has two entries
C22_RegistrySafe ==
    [][ \A c \in Clients :
          /\ (tasks[c].pc = "scan" /\ tasks'[c].pc = "done"
                  /\ Entries(registry, c) # {})
                 => /\ tasks'[c].found
                    /\ registry' = SelectSeq(registry, LAMBDA e : e # c)
          /\ (tasks'[c] = tasks[c] \/ tasks[c].thread # tasks'[c].thread)
                 => Cardinality(Entries(registry', c))
                        >= Cardinality(Entries(registry, c))
          /\ Cardinality(Entries(registry', c)) <= 1
      ]_vars


\* the client reports a window-size change after its session process was
\* started
Reported ==
    /\ spawned # None
    /\ <<client'.env.LINES, client'.env.COLUMNS>>
           # <<client.env.LINES, client.env.COLUMNS>>

\* C23: every window-size change reported after the session was spawned
\* puts exactly one 'refresh' event ('resize', (columns, rows)) with the
\* client's current COLUMNS and LINES on the session's channel, and when
\* the session buffers such an event its terminal has that size
C23_ResizeForwarded ==
    [][ /\ Reported =>
             iqueue' = Append(iqueue,
                 <<"refresh", <<"resize", <<client'.env.COLUMNS[1],
                                            client'.env.LINES[1]>>>>>>)
        /\ (~Reported /\ Len(iqueue') > Len(iqueue)) => FALSE
        /\ (Reading /\ Pulled("refresh") /\ Head(iqueue)[2][1] = "resize")
              => /\ term' = Head(iqueue)[2][2]
                 /\ Held(buffer', "refresh") = <<Head(iqueue)[2]>>
      ]_vars

\* the file session s records to, and the chunks a player reads from it
Capture(s) == disk.files[<<disk.path, recorders[s].fname[1]>>]
Played(s) == Chunks(Capture(s))

\* the texts of chunks
TextsOf(chunks) == [i \in 1..Len(chunks) |-> chunks[i].text]

\* the bytes of ESC [8;24;80t and of ESC %G
HeaderTexts ==
    <<(<<27, 91, 56, 59, 50, 52, 59, 56, 48, 116>>), (<<27, 37, 71>>)>>

\* the bytes of the texts stop_recording writes for session s
TrailerTexts(s) ==
    <<(<<27, 91, 109>>), (<<13, 10, 13, 10>>),
      (<<115, 105, 100, 58, 32, 48 + Sids[s].port>>), (<<13, 10>>)>>

\* the bytes of the texts sent to the client of session s, in order
SentTexts(s) ==
    [i \in 1..Len(recorders[s].out) |-> Encode(recorders[s].out[i].text)]

\* the capture of session s holds, in this order, the two headers, one
\* chunk per text sent, and the trailer once the recording is stopped
InOrder(s) ==
    IF ~recorders[s].record \/ recorders[s].out = << >>
    THEN DOMAIN disk.files = {}
    ELSE /\ TextsOf(Played(s))
              = HeaderTexts \o SentTexts(s)
                  \o (IF recorders[s].fp = None THEN TrailerTexts(s)
                      ELSE << >>)
         /\ recorders[s].fp = None <=> recorders[s].closes > 0

Tail14(s) == SubSeq(Capture(s), Len(Capture(s)) - 13, Len(Capture(s)))

\* session s records, has sent the text last at time at after its start,
\* and has not stopped
JustWrote(s, text, at) ==
    /\ s \in DOMAIN recorders
    /\ recorders[s].record
    /\ recorders[s].fp # None
    /\ recorders[s].out # << >>
    /\ Last(recorders[s].out).text = text
    /\ Last(recorders[s].out).at = at

\* C26: the chunk of a text written t after the session started holds
\* sec, the whole seconds of t, usec, its fraction in microseconds within
\* 0..999999, and len, the number of UTF-8 bytes of the text, then these
\* bytes; sec and usec read back give t, and len bytes read back give the
\* text; "hi" written at 1.5 s is sec 1, usec 500000, len 2
C26_ChunkLayout ==
    ("a" \in DOMAIN recorders /\ recorders["a"].record)
      => /\ \A i \in 1..Len(recorders["a"].out) :
              LET chunk == Played("a")[2 + i]
                  wrote == recorders["a"].out[i]
              IN  /\ chunk.sec = wrote.at \div 1000000
                  /\ chunk.usec \in 0..999999
                  /\ chunk.sec * 1000000 + chunk.usec = wrote.at
                  /\ chunk.len = Len(chunk.text)
                  /\ chunk.text = Encode(wrote.text)
                  /\ wrote.text = <<9617>> => chunk.text = <<226, 150, 145>>
                  /\ wrote.text = <<176>> => chunk.text = <<194, 176>>
                  /\ wrote.text = <<104, 105>> => chunk.text = <<104, 105>>
         /\ JustWrote("a", <<104, 105>>, 1500000)
              => Tail14("a")
                   = <<1, 0, 0, 0, 32, 161, 7, 0, 2, 0, 0, 0, 104, 105>>
         /\ JustWrote("a", <<9617>>, 750001)
              => Tail14("a")
                   = <<0, 0, 0, 177, 113, 11, 0, 3, 0, 0, 0, 226, 150, 145>>

\* "hi" was written 1.5 s after the session started
C26_Witness == JustWrote("a", <<104, 105>>, 1500000)

\* session s opens the file of a new recording in this step
Opens(s) ==
    /\ s \in DOMAIN recorders
    /\ recorders[s].fp = None
    /\ recorders'[s].fp # None

\* C25: a recording that starts never opens a file that exists already,
\* whether the file was made by another session of the same address in
\* the same second or by an earlier recording of the same session
C25_NoReuse ==
    [][ \A s \in Recorders :
          Opens(s) => recorders'[s].fp[1].path \notin DOMAIN disk.files
      ]_vars

\* C27: from its construction on, the encoding of a session is 'utf8' or
\* 'cp437' and the keyboard decoder is the one of that encoding; an
\* assignment of any other value fails and changes neither
C27_EncodingValid ==
    /\ []("a" \in DOMAIN recorders
            => /\ recorders["a"].encoding \in {"utf8", "cp437"}
               /\ recorders["a"].decoder = recorders["a"].encoding)
    /\ [][ ("a" \in DOMAIN recorders
              /\ recorders'["a"].error = "AssertionError")
             => /\ recorders'["a"].encoding = recorders["a"].encoding
                /\ recorders'["a"].decoder = recorders["a"].decoder ]_vars

\* every session process has exited and all its messages were taken
AllExited ==
    \A s \in Sessions : procs[s].pc = "exit" /\ uplink[s] = << >>

\* C28: every node number the lock authority granted is released by the
\* close of the session it was granted to, also when the wait for the
\* reply was interrupted: once every session process has exited and its
\* messages were taken, no number is locked any more
C28_NoLeak == AllExited => locks = {}

\* C29: a close of a session that is closed already has no effect: it
\* sends no release event and leaves the recording as it is, so that the
\* node a session claimed is released at most once
C29_CloseIdempotent ==
    [][ (closes >= 1 /\ closes' = closes + 1)
          => /\ Releases(oqueue') = Releases(oqueue)
             /\ fp_ttyrec' = fp_ttyrec ]_vars

\* a sequence in the opposite order
Reverse(seq) == [i \in 1..Len(seq) |-> seq[Len(seq) + 1 - i]]

\* what a pulled message puts at the front of the buffer of its name: the
\* keystrokes of an input chunk, the last one first, else the payload
Arrived(msg) == IF msg[1] = "input" THEN Reverse(msg[2]) ELSE <<msg[2]>>

\* this step is a call of flush_event for the name e
Flushes(e) ==
    /\ InBody
    /\ calls' = calls
    /\ iqueue' = iqueue
    /\ ret'[1] = "flushed"
    /\ ret'[2][1] = e

C31_StackRestored ==
    InBody => /\ script_stack # << >>
              /\ Last(script_stack) = Top.frame

\* the thread leaves the wait for the response to a cursor-position query
\* in this step, the client being connected
StopsWaiting ==
    /\ neg.pc = "query_wait"
    /\ neg'.pc # "query_wait"
    /\ ~client.closed

\* C32: the wait for the response to a cursor-position query ends before
\* TIME_WAIT has passed since the query only if input arrived after the
\* query was sent, also when the client was silent for TIME_PAUSE or
\* longer before the query; so a response sent within TIME_WAIT is read
\* and searched for the pattern of that query
C32_TimelyReplyHonoured ==
    [][ StopsWaiting
          => \/ neg.elapsed >= TIME_WAIT
             \/ client.idle < neg.elapsed ]_vars

====
